---------------------------- MODULE Spec2Model ----------------------------
(***************************************************************************)
(* Model of the KnowledgeExtractorAI pipelines.                            *)
(*                                                                         *)
(*   src/gemini_integration.py        GeminiIntegration (sanitizer, parse, *)
(*                                    generate)                            *)
(*   src/backend/src/main_pipeline.py RAGPipeline, main                    *)
(*   src/backend/src/setup_day1.py    HealthcareQASetup (construction)     *)
(*   src/backend/src/setup_day2.py    VertexAISearchSetup (construction,   *)
(*                                    engine lookup, search)               *)
(*   src/healthcare_pipeline.py       HealthcareGeminiIntegration,         *)
(*                                    HealthcareRAGPipeline, main          *)
(*                                                                         *)
(* A text is a sequence of symbols.  A symbol is one of the characters the *)
(* sanitizer and the JSON grammar look at (backtick, comma, brackets,      *)
(* braces, quote, colon, blank, newline, a digit) or an opaque run of      *)
(* letters that contains none of them ("json", "null", "requirement_id",   *)
(* "REQ-1", ...).                                                          *)
(***************************************************************************)
EXTENDS Integers, Sequences, FiniteSets, TLC

\* ------------------------------------------------------------------------
\* Bounds of the model
\* ------------------------------------------------------------------------
\* largest number of environment variables left unset in one run
MaxMissing == 1
\* largest number of result objects in one search response
MaxResults == 1
\* largest number of objects in an array the generative model returns
MaxItems == 2
\* largest number of calls of a lookup in a row
MaxCalls == 3
\* largest number of form fields in a processed document
MaxFields == 3
\* largest number of requirements, and of test cases, in an exported batch
MaxBatch == 2

\* ------------------------------------------------------------------------
\* Text symbols
\* ------------------------------------------------------------------------
\* the backtick character (the lexer of TLA+ has no string for it)
BT == "BACKTICK"
QUOTE == "\""
NL == "\n"
SP == " "
WS == {SP, NL}
DigitSyms == {"0", "1", "2", "3", "4", "5", "6", "7", "8", "9"}

DigitVal(d) ==
  CASE d = "0" -> 0 [] d = "1" -> 1 [] d = "2" -> 2 [] d = "3" -> 3
    [] d = "4" -> 4 [] d = "5" -> 5 [] d = "6" -> 6 [] d = "7" -> 7
    [] d = "8" -> 8 [] d = "9" -> 9

\* ------------------------------------------------------------------------
\* Python values (the structures json.loads builds), tagged by type
\* ------------------------------------------------------------------------
PyNone == [t |-> "none"]
PyBool(b) == [t |-> "bool", v |-> b]
PyInt(n) == [t |-> "int", v |-> n]
\* a str: its symbols
PyStr(s) == [t |-> "str", v |-> s]
\* a list: its elements
PyList(xs) == [t |-> "list", v |-> xs]
\* a dict: its items <<key, value>> in insertion order, keys are symbol sequences
PyDict(items) == [t |-> "dict", v |-> items]

\* dict[key] = value: replaces the value of an existing key, else appends
DictSet(items, k, val) ==
  IF \E i \in 1..Len(items) : items[i][1] = k
  THEN [i \in 1..Len(items) |-> IF items[i][1] = k THEN <<k, val>> ELSE items[i]]
  ELSE Append(items, <<k, val>>)

DictHas(d, k) == \E i \in 1..Len(d.v) : d.v[i][1] = k

\* dict.get(key): the value, or None
DictGet(d, k) ==
  IF DictHas(d, k)
  THEN d.v[CHOOSE i \in 1..Len(d.v) : d.v[i][1] = k][2]
  ELSE PyNone

\* ------------------------------------------------------------------------
\* str.strip, str.replace, re.sub as used by the sanitizer
\* ------------------------------------------------------------------------
RECURSIVE LStrip(_)
LStrip(s) == IF s # <<>> /\ Head(s) \in WS THEN LStrip(Tail(s)) ELSE s

RECURSIVE RStrip(_)
RStrip(s) ==
  IF s # <<>> /\ s[Len(s)] \in WS THEN RStrip(SubSeq(s, 1, Len(s) - 1)) ELSE s

Strip(s) == RStrip(LStrip(s))

StartsWith(s, pat) == Len(s) >= Len(pat) /\ SubSeq(s, 1, Len(pat)) = pat

\* str.replace(pat, rep): every non-overlapping occurrence, left to right
RECURSIVE Replace(_, _, _)
Replace(s, pat, rep) ==
  IF Len(s) < Len(pat) THEN s
  ELSE IF StartsWith(s, pat)
       THEN rep \o Replace(SubSeq(s, Len(pat) + 1, Len(s)), pat, rep)
       ELSE <<Head(s)>> \o Replace(Tail(s), pat, rep)

\* re.sub(r",\s*<close>", "<close>", s)
RECURSIVE ReSubTrailingComma(_, _)
RECURSIVE ReSubAtComma(_, _, _)

\* s starts with a comma and after is what follows the comma and its blanks
ReSubAtComma(s, after, close) ==
  IF after # <<>> /\ Head(after) = close
  THEN <<close>> \o ReSubTrailingComma(Tail(after), close)
  ELSE <<",">> \o ReSubTrailingComma(Tail(s), close)

ReSubTrailingComma(s, close) ==
  IF s = <<>> THEN s
  ELSE IF Head(s) = "," THEN ReSubAtComma(s, LStrip(Tail(s)), close)
  ELSE <<Head(s)>> \o ReSubTrailingComma(Tail(s), close)

FenceJson == <<BT, BT, BT, "json">>
Fence == <<BT, BT, BT>>

\* gemini_integration.py:74 without the replacement of the json-tagged marker
StripFences_TagKept(response_text) ==
  Strip(Replace(Strip(response_text), Fence, <<>>))

\* gemini_integration.py:74
StripFences(response_text) ==
  Strip(Replace(Replace(Strip(response_text), FenceJson, <<>>), Fence, <<>>))

\* gemini_integration.py:74,79,80
CleanResponse(response_text) ==
  ReSubTrailingComma(ReSubTrailingComma(StripFences(response_text), "]"), "}")

\* ------------------------------------------------------------------------
\* json.loads
\* ------------------------------------------------------------------------
ParseFail == [ok |-> FALSE]
ParseOk(val, rest) == [ok |-> TRUE, val |-> val, rest |-> rest]

\* the index of the first quote of s, 0 when there is none
RECURSIVE FindQuote(_, _)
FindQuote(s, i) ==
  IF i > Len(s) THEN 0 ELSE IF s[i] = QUOTE THEN i ELSE FindQuote(s, i + 1)

\* s follows an opening quote and q is the index of the closing one; a raw
\* newline inside a string is rejected
ParseStringTo(s, q) ==
  IF q = 0 \/ (\E i \in 1..(q - 1) : s[i] = NL) THEN ParseFail
  ELSE ParseOk(PyStr(SubSeq(s, 1, q - 1)), SubSeq(s, q + 1, Len(s)))

ParseString(s) == ParseStringTo(s, FindQuote(s, 1))

\* a number: "0", or a run of digits that does not start with "0"
RECURSIVE ParseDigits(_, _)
ParseDigits(s, acc) ==
  IF s # <<>> /\ Head(s) \in DigitSyms
  THEN ParseDigits(Tail(s), acc * 10 + DigitVal(Head(s)))
  ELSE ParseOk(PyInt(acc), s)

ParseNumber(s) ==
  IF Head(s) = "0" THEN ParseOk(PyInt(0), Tail(s)) ELSE ParseDigits(s, 0)

RECURSIVE ParseValue(_)
RECURSIVE ParseElems(_, _)
RECURSIVE ParseMembers(_, _)

\* an element val was parsed and u follows it: a comma, the closing bracket
ParseElemsSep(val, u, acc) ==
  IF u = <<>> THEN ParseFail
  ELSE IF Head(u) = "," THEN ParseElems(Tail(u), Append(acc, val))
  ELSE IF Head(u) = "]" THEN ParseOk(PyList(Append(acc, val)), Tail(u))
  ELSE ParseFail

ParseElemsNext(e, acc) ==
  IF ~e.ok THEN ParseFail ELSE ParseElemsSep(e.val, LStrip(e.rest), acc)

\* s follows "[" or a "," of an array; acc are the elements parsed so far
ParseElems(s, acc) == ParseElemsNext(ParseValue(s), acc)

\* the items are parsed and u follows them: a comma, the closing brace
ParseMemberNext(items, u) ==
  IF u = <<>> THEN ParseFail
  ELSE IF Head(u) = "," THEN ParseMembers(Tail(u), items)
  ELSE IF Head(u) = "}" THEN ParseOk(PyDict(items), Tail(u))
  ELSE ParseFail

ParseMemberSep(key, e, acc) ==
  IF ~e.ok THEN ParseFail ELSE ParseMemberNext(DictSet(acc, key, e.val), LStrip(e.rest))

ParseMemberValue(key, c, acc) ==
  IF c = <<>> \/ Head(c) # ":" THEN ParseFail
  ELSE ParseMemberSep(key, ParseValue(Tail(c)), acc)

ParseMemberColon(k, acc) ==
  IF ~k.ok THEN ParseFail ELSE ParseMemberValue(k.val.v, LStrip(k.rest), acc)

ParseMemberKey(t, acc) ==
  IF t = <<>> \/ Head(t) # QUOTE THEN ParseFail
  ELSE ParseMemberColon(ParseString(Tail(t)), acc)

\* s follows "{" or a "," of an object; acc are the items parsed so far
ParseMembers(s, acc) == ParseMemberKey(LStrip(s), acc)

\* a follows "[" and its blanks
ParseArray(a) ==
  IF a # <<>> /\ Head(a) = "]" THEN ParseOk(PyList(<<>>), Tail(a))
  ELSE ParseElems(a, <<>>)

\* o follows "{" and its blanks
ParseObject(o) ==
  IF o # <<>> /\ Head(o) = "}" THEN ParseOk(PyDict(<<>>), Tail(o))
  ELSE ParseMembers(o, <<>>)

ParseValueAt(t) ==
  IF t = <<>> THEN ParseFail
  ELSE IF Head(t) = "[" THEN ParseArray(LStrip(Tail(t)))
  ELSE IF Head(t) = "{" THEN ParseObject(LStrip(Tail(t)))
  ELSE IF Head(t) = QUOTE THEN ParseString(Tail(t))
  ELSE IF Head(t) \in DigitSyms THEN ParseNumber(t)
  ELSE IF Head(t) = "null" THEN ParseOk(PyNone, Tail(t))
  ELSE IF Head(t) = "true" THEN ParseOk(PyBool(TRUE), Tail(t))
  ELSE IF Head(t) = "false" THEN ParseOk(PyBool(FALSE), Tail(t))
  ELSE ParseFail

ParseValue(s) == ParseValueAt(LStrip(s))

\* the whole text must be one value
JsonDocument(r) ==
  IF r.ok /\ LStrip(r.rest) = <<>> THEN [ok |-> TRUE, val |-> r.val]
  ELSE [ok |-> FALSE, val |-> PyNone]

\* json.loads(s): [ok |-> TRUE, val |-> v], or ok = FALSE for JSONDecodeError
JsonLoads(s) == JsonDocument(ParseValue(s))

\* gemini_integration.py:82-87: the value is returned, the error re-raised
ReturnOrRaise(loaded) ==
  IF loaded.ok THEN [raised |-> "none", value |-> loaded.val]
  ELSE [raised |-> "JSONDecodeError", value |-> PyNone]

\* gemini_integration.py:82-87 with the error swallowed: it is logged and an
\* empty list returned
ReturnOrSwallow(loaded) ==
  IF loaded.ok THEN [raised |-> "none", value |-> loaded.val]
  ELSE [raised |-> "none", value |-> PyList(<<>>)]

\* _parse_gemini_json_response with the JSONDecodeError swallowed
parse_gemini_json_response_Swallow(response_text) ==
  ReturnOrSwallow(JsonLoads(CleanResponse(response_text)))

\* GeminiIntegration._parse_gemini_json_response: the value json.loads
\* returns, or the JSONDecodeError it re-raises
parse_gemini_json_response(response_text) ==
  ReturnOrRaise(JsonLoads(CleanResponse(response_text)))

\* ------------------------------------------------------------------------
\* Texts the generative model may return
\* ------------------------------------------------------------------------
Str(syms) == <<QUOTE>> \o syms \o <<QUOTE>>

DigitSym(i) ==
  CASE i = 0 -> "0" [] i = 1 -> "1" [] i = 2 -> "2" [] i = 3 -> "3" [] i = 4 -> "4"
    [] i = 5 -> "5" [] i = 6 -> "6" [] i = 7 -> "7" [] i = 8 -> "8" [] i = 9 -> "9"

\* the text {"key":"<prefix><i>"}
ObjText(key, idSyms) == <<"{">> \o Str(<<key>>) \o <<":">> \o Str(idSyms) \o <<"}">>

RECURSIVE ObjListText(_, _, _, _)
ObjListText(key, prefix, i, n) ==
  IF i > n THEN <<>>
  ELSE ObjText(key, <<prefix, DigitSym(i)>>)
       \o (IF i < n THEN <<",">> ELSE <<>>)
       \o ObjListText(key, prefix, i + 1, n)

\* the text [{"key":"<prefix>1"},...,{"key":"<prefix>n"}]
ArrayText(key, prefix, n) == <<"[">> \o ObjListText(key, prefix, 1, n) \o <<"]">>

\* one object followed by a trailing comma, inside a json-tagged code fence
FencedText(key, prefix) ==
  FenceJson \o <<NL, "[">> \o ObjText(key, <<prefix, "1">>) \o <<",", NL, "]", NL>> \o Fence

\* two objects that lack the separating comma
MissingCommaText(key, prefix) ==
  <<"[">> \o ObjText(key, <<prefix, "1">>) \o <<SP>> \o ObjText(key, <<prefix, "2">>) \o <<"]">>

\* the texts of one call: key and prefix name the identifier field the prompt
\* asks for, sentinel is an identifier the model may echo
TextsFor(key, prefix, sentinel) ==
  {ArrayText(key, prefix, n) : n \in 0..MaxItems}
    \cup { FencedText(key, prefix),
           MissingCommaText(key, prefix),
           <<>>,
           ObjText(key, <<prefix, "1">>),
           <<"null">>,
           <<"1">>,
           Str(<<prefix, "1">>),
           <<"[", "1", "]">>,
           <<"[">> \o ObjText(key, <<sentinel>>) \o <<"]">> }

\* model.generate_content(prompt): raises, or returns a response with a text
ModelOutcomes(texts) ==
  {[raised |-> "Exception", text |-> <<>>]}
    \cup {[raised |-> "none", text |-> t] : t \in texts}

RequirementTexts == TextsFor("requirement_id", "REQ-", "REQ-001-DEMO")
TestCaseTexts == TextsFor("test_case_id", "TC-", "TC-DEMO-JSON-ERROR")

\* ------------------------------------------------------------------------
\* GeminiIntegration (src/gemini_integration.py)
\* ------------------------------------------------------------------------
Item(k, syms) == <<(<<k>>), PyStr(syms)>>

\* gemini_integration.py:118
ParseRequirementsFallback ==
  PyList(<< PyDict(<< Item("requirement_id", <<"REQ-001-DEMO">>),
                      Item("title", <<"Demo", SP, "Title">>),
                      Item("description", <<"Demo", SP, "Description">>),
                      Item("acceptance_criteria", <<"Demo", SP, "Criteria">>) >>) >>)

\* JsonErrorFallback with the demo record forgotten
JsonErrorFallback_Empty == PyList(<<>>)

\* gemini_integration.py:158
JsonErrorFallback ==
  PyList(<< PyDict(<< Item("test_case_id", <<"TC-DEMO-JSON-ERROR">>),
                      Item("title", <<"Demo", SP, "Test", SP, "Case", SP, "(JSON", SP, "Error)">>),
                      Item("description", <<"Demo", SP, "Description">>),
                      Item("steps", <<"Demo", SP, "Steps">>),
                      Item("expected_results", <<"Demo", SP, "Results">>) >>) >>)

\* gemini_integration.py:161
ApiErrorFallback ==
  PyList(<< PyDict(<< Item("test_case_id", <<"TC-DEMO-API-ERROR">>),
                      Item("title", <<"Demo", SP, "Test", SP, "Case", SP, "(API", SP, "Error)">>),
                      Item("description", <<"Demo", SP, "Description">>),
                      Item("steps", <<"Demo", SP, "Steps">>),
                      Item("expected_results", <<"Demo", SP, "Results">>) >>) >>)

\* what one parse/generate operation did: the outcome of the model call, the
\* text it returned, the outcome of the sanitizer ("not_called" when the
\* operation never reached it) and the value handed to the caller
OpRecord(op, outcome, called, sanitizer, result) ==
  [op |-> op, called |-> called, call |-> outcome.raised, text |-> outcome.text,
   sanitizer |-> sanitizer, result |-> result]

NoOp ==
  [op |-> "none", called |-> FALSE, call |-> "none", text |-> <<>>,
   sanitizer |-> "not_called", result |-> PyNone]

\* gemini_integration.py:114-118: san is what the sanitizer did
ParseRequirementsResult(outcome, san) ==
  IF san.raised = "none"
  THEN OpRecord("parse_requirements", outcome, TRUE, "none", san.value)
  ELSE OpRecord("parse_requirements", outcome, TRUE, san.raised, ParseRequirementsFallback)

\* parse_requirements with a failed model call answered by an empty list
parse_requirements_NoFallback(outcome) ==
  IF outcome.raised # "none"
  THEN OpRecord("parse_requirements", outcome, TRUE, "not_called", PyList(<<>>))
  ELSE ParseRequirementsResult(outcome, parse_gemini_json_response(outcome.text))

\* GeminiIntegration.parse_requirements
parse_requirements(outcome) ==
  IF outcome.raised # "none"
  THEN OpRecord("parse_requirements", outcome, TRUE, "not_called", ParseRequirementsFallback)
  ELSE ParseRequirementsResult(outcome, parse_gemini_json_response(outcome.text))

\* gemini_integration.py:155-158 with the record of the API error returned
\* for a JSON error too
GenerateResult_Conflated(outcome, san) ==
  IF san.raised = "none"
  THEN OpRecord("generate_test_cases_with_compliance", outcome, TRUE, "none", san.value)
  ELSE OpRecord("generate_test_cases_with_compliance", outcome, TRUE, san.raised, ApiErrorFallback)

\* gemini_integration.py:155-158: san is what the sanitizer did
GenerateResult(outcome, san) ==
  IF san.raised = "none"
  THEN OpRecord("generate_test_cases_with_compliance", outcome, TRUE, "none", san.value)
  ELSE OpRecord("generate_test_cases_with_compliance", outcome, TRUE, san.raised, JsonErrorFallback)

\* GeminiIntegration.generate_test_cases_with_compliance
generate_test_cases_with_compliance(outcome) ==
  IF outcome.raised # "none"
  THEN OpRecord("generate_test_cases_with_compliance", outcome, TRUE, "not_called", ApiErrorFallback)
  ELSE GenerateResult(outcome, parse_gemini_json_response(outcome.text))

\* iter(value): the items a for loop or list.extend visits, or TypeError
PyIter(val) ==
  IF val.t = "list" THEN [ok |-> TRUE, items |-> val.v]
  ELSE IF val.t = "dict" THEN [ok |-> TRUE, items |-> [i \in 1..Len(val.v) |-> PyStr(val.v[i][1])]]
  ELSE IF val.t = "str" THEN [ok |-> TRUE, items |-> [i \in 1..Len(val.v) |-> PyStr(<<val.v[i]>>)]]
  ELSE [ok |-> FALSE, items |-> <<>>]

\* ------------------------------------------------------------------------
\* Configuration (environment variables, credential file)
\* ------------------------------------------------------------------------
\* setup_day1.py:72-75
Day1RequiredVars ==
  {"GCP_PROJECT_ID", "GCP_REGION", "GCP_SERVICE_ACCOUNT_KEY_PATH",
   "PROCESSOR_DISPLAY_NAME", "PROCESSOR_TYPE", "BUCKET_PREFIX", "SAMPLE_DOC_PATH"}

\* setup_day2.py:69-72
Day2RequiredVars ==
  {"GCP_PROJECT_ID", "GCP_REGION", "GCP_SERVICE_ACCOUNT_KEY_PATH",
   "DATA_STORE_DISPLAY_NAME", "ENGINE_DISPLAY_NAME", "BUCKET_PREFIX"}

\* gemini_integration.py:54
GeminiRequiredVars == {"GCP_PROJECT_ID", "GCP_REGION", "GEMINI_API_KEY"}

\* healthcare_pipeline.py:97
HealthRequiredVars == {"GCP_PROJECT_ID", "GEMINI_API_KEY", "GCP_SERVICE_ACCOUNT_KEY_PATH"}

AllVars == Day1RequiredVars \cup Day2RequiredVars \cup GeminiRequiredVars \cup HealthRequiredVars

\* the settings the program that is run requires
RequiredVars(prog) ==
  IF prog = "rag" THEN Day1RequiredVars \cup Day2RequiredVars \cup GeminiRequiredVars
  ELSE HealthRequiredVars

\* _validate_config of setup_day1.py and setup_day2.py: the exception it raises
ValidateConfigWithKeyFile(required, environ, keyFileExists) ==
  IF required \ environ # {} THEN "ValueError"
  ELSE IF ~keyFileExists THEN "FileNotFoundError"
  ELSE "none"

\* _validate_config of gemini_integration.py and healthcare_pipeline.py
ValidateConfig(required, environ) ==
  IF required \ environ # {} THEN "ValueError" ELSE "none"

Day1Clients == {"day1.docai_client", "day1.storage_client"}
Day2Clients ==
  {"day2.discoveryengine_client", "day2.engine_client", "day2.document_client",
   "day2.search_client", "day2.storage_client"}
GeminiClients == {"gemini.model"}

\* main_pipeline.py:101-104, the report main logs for an exception
RagReport(exc) ==
  IF exc \in {"ValueError", "FileNotFoundError"} THEN "Configuration Error"
  ELSE "An unexpected error occurred"

\* ------------------------------------------------------------------------
\* State
\* ------------------------------------------------------------------------
VARIABLES
  program,         \* the main that is run: "rag" (main_pipeline.py) or "health"
  environ,         \* the environment variables that are set
  keyFile,         \* the credential file exists
  pc,              \* the position of main
  clients,         \* the external clients constructed so far
  engine_name,     \* VertexAISearchSetup.engine_name
  remoteEngine,    \* an engine with the configured display name exists remotely
  requirements,    \* the value the parse step returned
  idx,             \* the number of requirements the loop has fetched
  compliance_context, \* the value the search step returned for the current requirement
  all_test_cases,  \* the aggregated test cases
  visited,         \* the indexes of the requirements whose loop body ran, in order
  perReq,          \* the items each generation result contributed, in order
  calls,           \* the number of model, search and engine calls issued
  lastOp,          \* the last parse/generate operation (OpRecord)
  failure,         \* the exception that reached main, and the place that raised it
  report,          \* the error main logged
  outputFile,      \* the content of the output file, or Absent
  call,            \* a function applied on its own: its name and its arguments
  frame,           \* the position inside that function and its local values
  setup,           \* the fields of the setup object that run_setup works on
  cloud            \* the resources outside the program: the project's, and the local files

vars ==
  <<program, environ, keyFile, pc, clients, engine_name, remoteEngine, requirements,
    idx, compliance_context, all_test_cases, visited, perReq, calls, lastOp,
    failure, report, outputFile, call, frame, setup, cloud>>

\* no function is applied on its own while a pipeline runs
NotApplied == [fn |-> "none"]
NoFrame == [pc |-> "none"]

\* no lookup of a resource has been made
NoLookup == [kind |-> "none", existed |-> FALSE, created |-> FALSE, raised |-> "none"]

\* setup_day1.py:57 and setup_day2.py:60: the resource names are empty after
\* construction; the rest records what run_setup has done: the steps it has
\* begun, the position and the last outcome of the bucket loop, the last
\* lookup, whether the sample document was uploaded
NewSetup ==
  [processor_name |-> "", data_store_name |-> "", steps |-> <<>>, bucket_at |-> 0,
   last_bucket |-> "none", lookup |-> NoLookup, uploaded |-> FALSE]

\* a project with none of the resources, and no local file
EmptyCloud ==
  [processor |-> FALSE, data_store |-> FALSE, buckets |-> {}, blobs |-> {},
   made |-> {}, created |-> [processor |-> 0, data_store |-> 0, engine |-> 0],
   sample |-> FALSE, pdfs |-> FALSE, imported |-> FALSE]

Absent == [written |-> FALSE, content |-> <<>>]
Written(content) == [written |-> TRUE, content |-> content]

NoFailure == [exc |-> "none", site |-> "none"]
Failure(exc, site) == [exc |-> exc, site |-> site]

NoContext == [kind |-> "none", n |-> 0]

Environments == {AllVars \ m : m \in {x \in SUBSET AllVars : Cardinality(x) <= MaxMissing}}

Init ==
  /\ program \in {"rag", "health"}
  /\ environ \in Environments
  /\ keyFile \in BOOLEAN
  /\ pc = IF program = "rag" THEN "construct_day1" ELSE "h_construct"
  /\ clients = {}
  /\ engine_name = ""
  /\ remoteEngine \in BOOLEAN
  /\ requirements = PyNone
  /\ idx = 0
  /\ compliance_context = NoContext
  /\ all_test_cases = <<>>
  /\ visited = <<>>
  /\ perReq = <<>>
  /\ calls = [model |-> 0, search |-> 0, engine |-> 0]
  /\ lastOp = NoOp
  /\ failure = NoFailure
  /\ report = "none"
  /\ outputFile = Absent
  /\ call = NotApplied
  /\ frame = NoFrame
  /\ setup = NewSetup
  /\ cloud = EmptyCloud

\* an exception leaves run_pipeline / the constructors and is caught by
\* main_pipeline.main, which logs it and returns
RagAbort(exc, site) ==
  /\ failure' = Failure(exc, site)
  /\ report' = RagReport(exc)
  /\ pc' = "done"

\* ------------------------------------------------------------------------
\* main_pipeline.py: RAGPipeline.__init__
\* ------------------------------------------------------------------------
\* HealthcareQASetup.__init__ (setup_day1.py:37-65)
RAG_ConstructDay1 ==
  /\ program = "rag" /\ pc = "construct_day1"
  /\ LET exc == ValidateConfigWithKeyFile(Day1RequiredVars, environ, keyFile)
     IN  IF exc # "none"
         THEN /\ RagAbort(exc, "HealthcareQASetup._validate_config")
              /\ UNCHANGED clients
         ELSE /\ clients' = clients \cup Day1Clients
              /\ pc' = "construct_day2"
              /\ UNCHANGED <<failure, report>>
  /\ UNCHANGED <<setup, cloud, call, frame, program, environ, keyFile, engine_name, remoteEngine, requirements, idx,
                 compliance_context, all_test_cases, visited, perReq, calls, lastOp, outputFile>>

\* VertexAISearchSetup.__init__ (setup_day2.py:36-62)
RAG_ConstructDay2 ==
  /\ program = "rag" /\ pc = "construct_day2"
  /\ LET exc == ValidateConfigWithKeyFile(Day2RequiredVars, environ, keyFile)
     IN  IF exc # "none"
         THEN /\ RagAbort(exc, "VertexAISearchSetup._validate_config")
              /\ UNCHANGED <<clients, engine_name>>
         ELSE /\ clients' = clients \cup Day2Clients
              /\ engine_name' = ""
              /\ pc' = "construct_gemini"
              /\ UNCHANGED <<failure, report>>
  /\ UNCHANGED <<setup, cloud, call, frame, program, environ, keyFile, remoteEngine, requirements, idx,
                 compliance_context, all_test_cases, visited, perReq, calls, lastOp, outputFile>>

\* GeminiIntegration.__init__ (gemini_integration.py:35-47)
RAG_ConstructGemini ==
  /\ program = "rag" /\ pc = "construct_gemini"
  /\ LET exc == ValidateConfig(GeminiRequiredVars, environ)
     IN  IF exc # "none"
         THEN /\ RagAbort(exc, "GeminiIntegration._validate_config")
              /\ UNCHANGED clients
         ELSE /\ clients' = clients \cup GeminiClients
              /\ pc' = "read_document"
              /\ UNCHANGED <<failure, report>>
  /\ UNCHANGED <<setup, cloud, call, frame, program, environ, keyFile, engine_name, remoteEngine, requirements, idx,
                 compliance_context, all_test_cases, visited, perReq, calls, lastOp, outputFile>>

\* ------------------------------------------------------------------------
\* main_pipeline.py: RAGPipeline.run_pipeline and main
\* ------------------------------------------------------------------------
\* run_pipeline, step 1 (main_pipeline.py:59-66)
RAG_ReadDocument ==
  /\ program = "rag" /\ pc = "read_document"
  /\ \E found \in BOOLEAN :
       IF found
       THEN pc' = "parse_requirements" /\ UNCHANGED <<failure, report>>
       ELSE RagAbort("FileNotFoundError", "open")
  /\ UNCHANGED <<setup, cloud, call, frame, program, environ, keyFile, clients, engine_name, remoteEngine, requirements,
                 idx, compliance_context, all_test_cases, visited, perReq, calls, lastOp,
                 outputFile>>

\* run_pipeline, step 2 (main_pipeline.py:69, 72)
RAG_ParseRequirements ==
  /\ program = "rag" /\ pc = "parse_requirements"
  /\ \E outcome \in ModelOutcomes(RequirementTexts) :
       lastOp' = parse_requirements(outcome)
  /\ requirements' = lastOp'.result
  /\ calls' = [calls EXCEPT !.model = @ + 1]
  /\ all_test_cases' = <<>>
  /\ pc' = "next_requirement"
  /\ UNCHANGED <<setup, cloud, call, frame, program, environ, keyFile, clients, engine_name, remoteEngine, idx,
                 compliance_context, visited, perReq, failure, report, outputFile>>

\* run_pipeline, the head of the loop and the first line of its body
\* (main_pipeline.py:73-75); after the last requirement the loop is left
RAG_NextRequirement ==
  /\ program = "rag" /\ pc = "next_requirement"
  /\ LET it == PyIter(requirements)
     IN  IF ~it.ok
         THEN /\ RagAbort("TypeError", "for req in requirements")
              /\ UNCHANGED <<idx, visited>>
         ELSE IF idx >= Len(it.items)
         THEN /\ pc' = "write_output"
              /\ UNCHANGED <<idx, visited, failure, report>>
         ELSE IF it.items[idx + 1].t # "dict"
         THEN /\ RagAbort("AttributeError", "req.get")
              /\ idx' = idx + 1
              /\ UNCHANGED visited
         ELSE /\ idx' = idx + 1
              /\ visited' = Append(visited, idx + 1)
              /\ pc' = "search"
              /\ UNCHANGED <<failure, report>>
  /\ UNCHANGED <<setup, cloud, call, frame, program, environ, keyFile, clients, engine_name, remoteEngine, requirements,
                 compliance_context, all_test_cases, perReq, calls, lastOp, outputFile>>

\* ------------------------------------------------------------------------
\* setup_day2.py: engine lookup and search
\* ------------------------------------------------------------------------
\* the resource name of the engine with the configured display name
EngineResource == "engines/configured"

\* the outcome of one call to the vendor API
ApiOutcomes == {"none", "GoogleAPICallError"}

\* get_or_create_engine returning the name of the engine it found without
\* storing it in self.engine_name
get_or_create_engine_NotStored(name, remote, listOutcome, createOutcome) ==
  IF listOutcome # "none"
  THEN [raised |-> listOutcome, site |-> "list_engines", engine_name |-> name,
        remote |-> remote, apiCalls |-> 1]
  ELSE IF remote
  THEN [raised |-> "none", site |-> "none", engine_name |-> name,
        remote |-> remote, apiCalls |-> 1]
  ELSE IF createOutcome # "none"
  THEN [raised |-> createOutcome, site |-> "create_engine", engine_name |-> name,
        remote |-> remote, apiCalls |-> 2]
  ELSE [raised |-> "none", site |-> "none", engine_name |-> EngineResource,
        remote |-> TRUE, apiCalls |-> 2]

\* VertexAISearchSetup.get_or_create_engine: the exception it re-raises, the
\* new engine_name, the remote engine set and the number of API calls made
get_or_create_engine(name, remote, listOutcome, createOutcome) ==
  IF listOutcome # "none"
  THEN [raised |-> listOutcome, site |-> "list_engines", engine_name |-> name,
        remote |-> remote, apiCalls |-> 1]
  ELSE IF remote
  THEN [raised |-> "none", site |-> "none", engine_name |-> EngineResource,
        remote |-> remote, apiCalls |-> 1]
  ELSE IF createOutcome # "none"
  THEN [raised |-> createOutcome, site |-> "create_engine", engine_name |-> name,
        remote |-> remote, apiCalls |-> 2]
  ELSE [raised |-> "none", site |-> "none", engine_name |-> EngineResource,
        remote |-> TRUE, apiCalls |-> 2]

\* a search result: whether its derived_struct_data has a title and snippets
ResultShapes == [title : BOOLEAN, snippets : BOOLEAN]

SearchResults == UNION {[1..n -> ResultShapes] : n \in 0..MaxResults}

\* search_client.search(request): raises, or returns a response with results
SearchOutcomes ==
  {[raised |-> "GoogleAPICallError", results |-> <<>>]}
    \cup {[raised |-> "none", results |-> r] : r \in SearchResults}

ErrorContext == [kind |-> "error", n |-> 0]
ResultsContext(n) == [kind |-> "results", n |-> n]

\* setup_day2.py:264-273, the exception raised while formatting the results
FormatResults(results) ==
  IF \E i \in 1..Len(results) : ~results[i].title \/ ~results[i].snippets
  THEN "KeyError" ELSE "none"

\* setup_day2.py:243-277: the engine is known, eng is what the lookup did
SearchWithEngine(eng, searchOutcome) ==
  IF searchOutcome.raised # "none"
  THEN [raised |-> "none", site |-> "none", engine_name |-> eng.engine_name,
        remote |-> eng.remote, engineCalls |-> eng.apiCalls, searchCalls |-> 1,
        context |-> ErrorContext]
  ELSE IF FormatResults(searchOutcome.results) # "none"
  THEN [raised |-> FormatResults(searchOutcome.results), site |-> "derived_struct_data",
        engine_name |-> eng.engine_name, remote |-> eng.remote,
        engineCalls |-> eng.apiCalls, searchCalls |-> 1, context |-> NoContext]
  ELSE [raised |-> "none", site |-> "none", engine_name |-> eng.engine_name,
        remote |-> eng.remote, engineCalls |-> eng.apiCalls, searchCalls |-> 1,
        context |-> ResultsContext(Len(searchOutcome.results))]

\* setup_day2.py:239-243: an exception of the lookup leaves the search
SearchAfterLookup(eng, searchOutcome) ==
  IF eng.raised # "none"
  THEN [raised |-> eng.raised, site |-> eng.site, engine_name |-> eng.engine_name,
        remote |-> eng.remote, engineCalls |-> eng.apiCalls, searchCalls |-> 0,
        context |-> NoContext]
  ELSE SearchWithEngine(eng, searchOutcome)

\* VertexAISearchSetup.search_compliance_knowledge_base
search_compliance_knowledge_base(name, remote, listOutcome, createOutcome, searchOutcome) ==
  IF name = ""
  THEN SearchAfterLookup(get_or_create_engine(name, remote, listOutcome, createOutcome),
                         searchOutcome)
  ELSE SearchWithEngine([raised |-> "none", site |-> "none", engine_name |-> name,
                         remote |-> remote, apiCalls |-> 0], searchOutcome)

\* main_pipeline.py:76: r is what the search did
SearchReturns(r) ==
  /\ engine_name' = r.engine_name
  /\ remoteEngine' = r.remote
  /\ calls' = [calls EXCEPT !.engine = @ + r.engineCalls, !.search = @ + r.searchCalls]
  /\ IF r.raised # "none"
     THEN /\ RagAbort(r.raised, r.site)
          /\ UNCHANGED compliance_context
     ELSE /\ compliance_context' = r.context
          /\ pc' = "generate"
          /\ UNCHANGED <<failure, report>>

\* run_pipeline, the search of the loop body (main_pipeline.py:75-76)
RAG_Search ==
  /\ program = "rag" /\ pc = "search"
  /\ \E listOutcome \in ApiOutcomes, createOutcome \in ApiOutcomes,
        searchOutcome \in SearchOutcomes :
       SearchReturns(search_compliance_knowledge_base(engine_name, remoteEngine, listOutcome,
                                                      createOutcome, searchOutcome))
  /\ UNCHANGED <<setup, cloud, call, frame, program, environ, keyFile, clients, requirements, idx, all_test_cases,
                 visited, perReq, lastOp, outputFile>>

\* run_pipeline, the generation of the loop body (main_pipeline.py:79-80)
RAG_Generate ==
  /\ program = "rag" /\ pc = "generate"
  /\ \E outcome \in ModelOutcomes(TestCaseTexts) :
       lastOp' = generate_test_cases_with_compliance(outcome)
  /\ IF ~PyIter(lastOp'.result).ok
     THEN /\ RagAbort("TypeError", "all_test_cases.extend")
          /\ UNCHANGED <<all_test_cases, perReq>>
     ELSE /\ all_test_cases' = all_test_cases \o PyIter(lastOp'.result).items
          /\ perReq' = Append(perReq, PyIter(lastOp'.result).items)
          /\ pc' = "next_requirement"
          /\ UNCHANGED <<failure, report>>
  /\ calls' = [calls EXCEPT !.model = @ + 1]
  /\ compliance_context' = NoContext
  /\ UNCHANGED <<setup, cloud, call, frame, program, environ, keyFile, clients, engine_name, remoteEngine, requirements,
                 idx, visited, outputFile>>

\* run_pipeline returns and main writes the output file (main_pipeline.py:82-99)
RAG_WriteOutput ==
  /\ program = "rag" /\ pc = "write_output"
  /\ outputFile' = Written(all_test_cases)
  /\ pc' = "done"
  /\ UNCHANGED <<setup, cloud, call, frame, program, environ, keyFile, clients, engine_name, remoteEngine, requirements,
                 idx, compliance_context, all_test_cases, visited, perReq, calls, lastOp,
                 failure, report>>

\* ------------------------------------------------------------------------
\* healthcare_pipeline.py: HealthcareGeminiIntegration
\* ------------------------------------------------------------------------
\* the replacement fields str.format meets in the requirement parser prompt:
\* the braces of the JSON example open a field before {document_text} does
\* (healthcare_pipeline.py:119-135)
requirement_parser_prompt == <<"\n    \"requirement_id\"", "document_text">>

\* the replacement fields of the test generator prompt
\* (healthcare_pipeline.py:148-183)
test_generator_prompt ==
  <<"compliance_context", "requirement_json", "\n    \"test_case_id\"">>

\* str.format(**kwargs): the exception it raises
StrFormat(fields, kwargs) ==
  IF \A i \in 1..Len(fields) : fields[i] \in kwargs THEN "none" ELSE "KeyError"

\* healthcare_pipeline.py:32-42
RequirementFields ==
  {"requirement_id", "title", "description", "priority", "acceptance_criteria",
   "risk_class", "iec_class", "traceability_links", "compliance_standards"}

\* healthcare_pipeline.py:54-67
TestCaseFields ==
  {"test_case_id", "requirement_id", "title", "description", "test_type", "priority",
   "steps", "expected_results", "compliance_validation", "regulatory_citations",
   "risk_category", "automation_feasible"}

PyStrList(seqOfSyms) == PyList([i \in 1..Len(seqOfSyms) |-> PyStr(seqOfSyms[i])])

\* an instance of a dataclass: its fields in declaration order
Instance(cls, items) == [t |-> cls, v |-> items]

\* cls(**data): the instance, or TypeError when data is no mapping or its keys
\* are not exactly the fields of the dataclass
MapDataclass(cls, fields, data) ==
  IF data.t = "dict" /\ {data.v[i][1] : i \in 1..Len(data.v)} = {<<f>> : f \in fields}
  THEN [raised |-> "none", value |-> Instance(cls, data.v)]
  ELSE [raised |-> "TypeError", value |-> PyNone]

\* the text before the first occurrence of pat (str.split(pat)[0])
RECURSIVE BeforeFirst(_, _)
BeforeFirst(s, pat) ==
  IF Len(s) < Len(pat) THEN s
  ELSE IF StartsWith(s, pat) THEN <<>>
  ELSE <<Head(s)>> \o BeforeFirst(Tail(s), pat)

\* healthcare_pipeline.py:249-251 and 321-323
ExtractFenced(text) ==
  LET response_text == Strip(text)
  IN  IF StartsWith(response_text, FenceJson)
      THEN BeforeFirst(BeforeFirst(SubSeq(response_text, Len(FenceJson) + 1, Len(response_text)),
                                   FenceJson), Fence)
      ELSE response_text

\* healthcare_pipeline.py:256-258 and 328-330: every item is mapped, or the
\* first failing one raises
MapItems(cls, fields, items) ==
  IF \E i \in 1..Len(items) : MapDataclass(cls, fields, items[i]).raised # "none"
  THEN [raised |-> "TypeError", value |-> PyNone]
  ELSE [raised |-> "none",
        value |-> PyList([i \in 1..Len(items) |-> MapDataclass(cls, fields, items[i]).value])]

MapIterated(cls, fields, it) ==
  IF ~it.ok THEN [raised |-> "TypeError", value |-> PyNone]
  ELSE MapItems(cls, fields, it.items)

MapLoaded(cls, fields, loaded) ==
  IF ~loaded.ok THEN [raised |-> "JSONDecodeError", value |-> PyNone]
  ELSE MapIterated(cls, fields, PyIter(loaded.val))

\* healthcare_pipeline.py:249-258 and 321-330: the list of instances, or the
\* exception json.loads, the for loop or the mapping raises
LoadAndMap(cls, fields, text) == MapLoaded(cls, fields, JsonLoads(ExtractFenced(text)))

\* healthcare_pipeline.py:266-276
SampleRequirement ==
  Instance("HealthcareRequirement",
    << Item("requirement_id", <<"REQ-DEMO-001">>),
       Item("title", <<"Sample", SP, "Healthcare", SP, "Requirement">>),
       Item("description", <<"Demo", SP, "requirement", SP, "for", SP, "hackathon">>),
       Item("priority", <<"High">>),
       <<(<<"acceptance_criteria">>),
         PyStrList(<< <<"Demo", SP, "criteria", SP, "1">>, <<"Demo", SP, "criteria", SP, "2">> >>)>>,
       Item("risk_class", <<"Medium">>),
       Item("iec_class", <<"Class", SP, "B">>),
       <<(<<"traceability_links">>), PyStrList(<< <<"FDA", SP, "21CFR820">>, <<"IEC", SP, "62304">> >>)>>,
       <<(<<"compliance_standards">>), PyStrList(<< <<"FDA">>, <<"IEC", SP, "62304">> >>)>> >>)

\* the symbols an f-string writes for a value
PyFormat(val) ==
  IF val.t = "str" THEN val.v
  ELSE IF val.t = "int" /\ val.v \in 0..9 THEN <<DigitSym(val.v)>>
  ELSE <<"repr">>

\* healthcare_pipeline.py:338-351
SampleTestCase(requirement) ==
  Instance("HealthcareTestCase",
    << Item("test_case_id", <<"TC-">> \o PyFormat(DictGet(requirement, <<"requirement_id">>)) \o <<"-001">>),
       <<(<<"requirement_id">>), DictGet(requirement, <<"requirement_id">>)>>,
       Item("title", <<"Sample", SP, "Test", SP, "Case">>),
       Item("description", <<"Demo", SP, "test", SP, "case", SP, "for", SP, "hackathon">>),
       Item("test_type", <<"Positive">>),
       <<(<<"priority">>), DictGet(requirement, <<"priority">>)>>,
       <<(<<"steps">>),
         PyList(<< PyDict(<< <<(<<"step">>), PyInt(1)>>,
                             Item("action", <<"Demo", SP, "action">>),
                             Item("expected_result", <<"Demo", SP, "result">>) >>) >>)>>,
       Item("expected_results", <<"Demo", SP, "expected", SP, "results">>),
       Item("compliance_validation", <<"Demo", SP, "compliance", SP, "validation">>),
       <<(<<"regulatory_citations">>), PyStrList(<< <<"IEC", SP, "62304", SP, "Demo">> >>)>>,
       Item("risk_category", <<"Safety">>),
       <<(<<"automation_feasible">>), PyBool(TRUE)>> >>)

\* the model was not called
NoCall == [raised |-> "none", text |-> <<>>]

\* healthcare_pipeline.py:261-276 and 333-351: m is what loading and mapping did
MappedOrFallback(op, outcome, m, fallback) ==
  IF m.raised = "none" THEN OpRecord(op, outcome, TRUE, "none", m.value)
  ELSE OpRecord(op, outcome, TRUE, m.raised, fallback)

\* HealthcareGeminiIntegration.parse_requirements_from_text
parse_requirements_from_text(outcome) ==
  IF StrFormat(requirement_parser_prompt, {"document_text"}) # "none"
  THEN OpRecord("parse_requirements_from_text", NoCall, FALSE, "not_called",
                PyList(<<SampleRequirement>>))
  ELSE IF outcome.raised # "none"
  THEN OpRecord("parse_requirements_from_text", outcome, TRUE, "not_called",
                PyList(<<SampleRequirement>>))
  ELSE MappedOrFallback("parse_requirements_from_text", outcome,
                        LoadAndMap("HealthcareRequirement", RequirementFields, outcome.text),
                        PyList(<<SampleRequirement>>))

\* a search result of the healthcare search: the struct_data keys it carries
HealthResultShapes == [regulation_code : BOOLEAN, content : BOOLEAN, title : BOOLEAN, uri : BOOLEAN]

HealthSearchOutcomes ==
  {[raised |-> "Exception", results |-> <<>>]}
    \cup {[raised |-> "none", results |-> r] :
            r \in UNION {[1..n -> HealthResultShapes] : n \in 0..MaxResults}}

\* HealthcareGeminiIntegration.search_compliance_knowledge: the number of
\* ComplianceContext objects returned; every exception yields the default one
search_compliance_knowledge(searchOutcome) ==
  IF searchOutcome.raised # "none" THEN [kind |-> "default", n |-> 1]
  ELSE [kind |-> "contexts", n |-> Len(searchOutcome.results)]

\* HealthcareGeminiIntegration.generate_test_cases_for_requirement, after the
\* search (healthcare_pipeline.py:294-351)
generate_test_cases_for_requirement(requirement, outcome) ==
  IF StrFormat(test_generator_prompt, {"compliance_context", "requirement_json"}) # "none"
  THEN OpRecord("generate_test_cases_for_requirement", NoCall, FALSE, "not_called",
                PyList(<<SampleTestCase(requirement)>>))
  ELSE IF outcome.raised # "none"
  THEN OpRecord("generate_test_cases_for_requirement", outcome, TRUE, "not_called",
                PyList(<<SampleTestCase(requirement)>>))
  ELSE MappedOrFallback("generate_test_cases_for_requirement", outcome,
                        LoadAndMap("HealthcareTestCase", TestCaseFields, outcome.text),
                        PyList(<<SampleTestCase(requirement)>>))

\* ------------------------------------------------------------------------
\* healthcare_pipeline.py: the exports and the traceability matrix
\* ------------------------------------------------------------------------
\* obj.name, the attribute of a dataclass instance
Attr(obj, name) == DictGet(obj, <<name>>)

\* bool(value)
Truthy(val) ==
  IF val.t = "none" THEN FALSE
  ELSE IF val.t = "bool" THEN val.v
  ELSE IF val.t = "int" THEN val.v # 0
  ELSE IF val.t \in {"str", "list", "dict"} THEN Len(val.v) > 0
  ELSE TRUE

Returned(val) == [raised |-> "none", value |-> val]
Raised(exc) == [raised |-> exc, value |-> PyNone]

RECURSIVE JoinSyms(_, _)
JoinSyms(sep, strs) ==
  IF strs = <<>> THEN <<>>
  ELSE IF Len(strs) = 1 THEN strs[1].v
  ELSE strs[1].v \o sep \o JoinSyms(sep, Tail(strs))

\* sep.join(it.items): TypeError unless every item is a str
JoinItems(sep, it) ==
  IF ~it.ok \/ (\E i \in 1..Len(it.items) : it.items[i].t # "str") THEN Raised("TypeError")
  ELSE Returned(PyStr(JoinSyms(sep, it.items)))

\* sep.join(value)
PyJoin(sep, val) == JoinItems(sep, PyIter(val))

\* req_map = {req.requirement_id: req for req in requirements}; req_map.get(id):
\* the last requirement with that identifier, or None
ReqMapGet(reqs, id) ==
  IF \E i \in 1..Len(reqs) : Attr(reqs[i], "requirement_id") = id
  THEN reqs[CHOOSE i \in 1..Len(reqs) :
              /\ Attr(reqs[i], "requirement_id") = id
              /\ \A j \in (i + 1)..Len(reqs) : Attr(reqs[j], "requirement_id") # id]
  ELSE PyNone

\* the exception step['step'], step['action'] or step['expected_result'] raises
StepRaises(step) ==
  IF step.t # "dict" THEN "TypeError"
  ELSE IF \E k \in {"step", "action", "expected_result"} : ~DictHas(step, <<k>>) THEN "KeyError"
  ELSE "none"

\* healthcare_pipeline.py:361
JiraStepLine(step) ==
  PyStr(PyFormat(DictGet(step, <<"step">>)) \o <<".", SP>>
        \o PyFormat(DictGet(step, <<"action">>)) \o <<SP, "|", SP>>
        \o PyFormat(DictGet(step, <<"expected_result">>)))

\* healthcare_pipeline.py:396
AzureStepXml(step) ==
  PyStr(<<"<step id='">> \o PyFormat(DictGet(step, <<"step">>))
        \o <<"'><parameterizedString isformatted='true'><![CDATA[">>
        \o PyFormat(DictGet(step, <<"action">>))
        \o <<"]]></parameterizedString><parameterizedString isformatted='true'><![CDATA[">>
        \o PyFormat(DictGet(step, <<"expected_result">>))
        \o <<"]]></parameterizedString><description/></step>">>)

\* healthcare_pipeline.py:360-363: it is what iterating tc.steps gives
JiraStepsOf(it) ==
  IF ~it.ok THEN Raised("TypeError")
  ELSE IF \E i \in 1..Len(it.items) : StepRaises(it.items[i]) # "none"
  THEN Raised(StepRaises(it.items[CHOOSE i \in 1..Len(it.items) :
                                     /\ StepRaises(it.items[i]) # "none"
                                     /\ \A j \in 1..(i - 1) : StepRaises(it.items[j]) = "none"]))
  ELSE Returned(PyStr(JoinSyms(<<NL>>, [i \in 1..Len(it.items) |-> JiraStepLine(it.items[i])])))

\* healthcare_pipeline.py:394-396
AzureStepsOf(it) ==
  IF JiraStepsOf(it).raised # "none" THEN JiraStepsOf(it)
  ELSE Returned(PyStr(<<"<steps>">>
                      \o JoinSyms(<<>>, [i \in 1..Len(it.items) |-> AzureStepXml(it.items[i])])
                      \o <<"</steps>">>))

\* healthcare_pipeline.py:365-366 with None exported for an unresolved parent
JiraStandards_NoneForUnresolved(requirement) ==
  IF Truthy(requirement) THEN Returned(Attr(requirement, "compliance_standards"))
  ELSE Returned(PyNone)

\* healthcare_pipeline.py:365-366
JiraStandards(requirement) ==
  IF Truthy(requirement) THEN Returned(Attr(requirement, "compliance_standards"))
  ELSE Returned(PyList(<<>>))

\* healthcare_pipeline.py:398-399
AzureStandards(requirement) ==
  IF Truthy(requirement) THEN PyJoin(<<",", SP>>, Attr(requirement, "compliance_standards"))
  ELSE Returned(PyStr(<<>>))

\* healthcare_pipeline.py:368-383
JiraIssue(tc, steps_text, compliance_standards) ==
  PyDict(<< Item("issueType", <<"Test", SP, "Case">>),
            <<(<<"fields">>),
              PyDict(<< <<(<<"summary">>), Attr(tc, "title")>>,
                        <<(<<"description">>), Attr(tc, "description")>>,
                        <<(<<"customfield_10001">>), Attr(tc, "requirement_id")>>,
                        <<(<<"customfield_10002">>), Attr(tc, "test_case_id")>>,
                        <<(<<"customfield_10003">>), steps_text>>,
                        <<(<<"customfield_10004">>), Attr(tc, "expected_results")>>,
                        <<(<<"priority">>), PyDict(<< <<(<<"name">>), Attr(tc, "priority")>> >>)>>,
                        <<(<<"customfield_10005">>), compliance_standards>>,
                        <<(<<"customfield_10006">>), Attr(tc, "risk_category")>>,
                        <<(<<"customfield_10007">>), Attr(tc, "regulatory_citations")>>,
                        <<(<<"labels">>),
                          PyList(<< Attr(tc, "test_type"), Attr(tc, "risk_category"),
                                    PyStr(<<"Healthcare">>),
                                    IF Truthy(Attr(tc, "automation_feasible"))
                                    THEN PyStr(<<"Automated">>)
                                    ELSE PyStr(<<"Manual">>) >>)>> >>)>> >>)

\* healthcare_pipeline.py:401-413, cites is the joined regulatory citations
AzureWorkItem(tc, steps_xml, compliance_standards, cites) ==
  PyDict(<< Item("workItemType", <<"Test", SP, "Case">>),
            <<(<<"fields">>),
              PyDict(<< <<(<<"System.Title">>), Attr(tc, "title")>>,
                        <<(<<"System.Description">>), Attr(tc, "description")>>,
                        <<(<<"Microsoft.VSTS.TCM.Steps">>), steps_xml>>,
                        <<(<<"Custom.RequirementLink">>), Attr(tc, "requirement_id")>>,
                        <<(<<"Custom.ComplianceStandard">>), compliance_standards>>,
                        <<(<<"Custom.RiskCategory">>), Attr(tc, "risk_category")>>,
                        <<(<<"Custom.RegulatoryCitations">>), cites>>,
                        <<(<<"System.Tags">>),
                          PyStr(PyFormat(Attr(tc, "test_type")) \o <<";", SP>>
                                \o PyFormat(Attr(tc, "risk_category"))
                                \o <<";", SP, "Healthcare">>)>> >>)>> >>)

\* one pass of the loop of export_to_jira_format: the exception it raises, or
\* the issue it appends
JiraExportOne(tc, reqs) ==
  IF JiraStepsOf(PyIter(Attr(tc, "steps"))).raised # "none"
  THEN JiraStepsOf(PyIter(Attr(tc, "steps")))
  ELSE Returned(JiraIssue(tc, JiraStepsOf(PyIter(Attr(tc, "steps"))).value,
                          JiraStandards(ReqMapGet(reqs, Attr(tc, "requirement_id"))).value))

\* one pass of the loop of export_to_azure_devops_format
AzureExportOne(tc, reqs) ==
  IF AzureStepsOf(PyIter(Attr(tc, "steps"))).raised # "none"
  THEN AzureStepsOf(PyIter(Attr(tc, "steps")))
  ELSE IF AzureStandards(ReqMapGet(reqs, Attr(tc, "requirement_id"))).raised # "none"
  THEN AzureStandards(ReqMapGet(reqs, Attr(tc, "requirement_id")))
  ELSE IF PyJoin(<<",", SP>>, Attr(tc, "regulatory_citations")).raised # "none"
  THEN PyJoin(<<",", SP>>, Attr(tc, "regulatory_citations"))
  ELSE Returned(AzureWorkItem(tc, AzureStepsOf(PyIter(Attr(tc, "steps"))).value,
                              AzureStandards(ReqMapGet(reqs, Attr(tc, "requirement_id"))).value,
                              PyJoin(<<",", SP>>, Attr(tc, "regulatory_citations")).value))

\* HealthcareGeminiIntegration.export_to_jira_format
export_to_jira_format(test_cases, reqs) ==
  IF \E i \in 1..Len(test_cases) : JiraExportOne(test_cases[i], reqs).raised # "none"
  THEN Raised(JiraExportOne(test_cases[CHOOSE i \in 1..Len(test_cases) :
       /\ JiraExportOne(test_cases[i], reqs).raised # "none"
       /\ \A j \in 1..(i - 1) : JiraExportOne(test_cases[j], reqs).raised = "none"], reqs).raised)
  ELSE Returned(PyList([i \in 1..Len(test_cases) |-> JiraExportOne(test_cases[i], reqs).value]))

\* HealthcareGeminiIntegration.export_to_azure_devops_format
export_to_azure_devops_format(test_cases, reqs) ==
  IF \E i \in 1..Len(test_cases) : AzureExportOne(test_cases[i], reqs).raised # "none"
  THEN Raised(AzureExportOne(test_cases[CHOOSE i \in 1..Len(test_cases) :
       /\ AzureExportOne(test_cases[i], reqs).raised # "none"
       /\ \A j \in 1..(i - 1) : AzureExportOne(test_cases[j], reqs).raised = "none"], reqs).raised)
  ELSE Returned(PyList([i \in 1..Len(test_cases) |-> AzureExportOne(test_cases[i], reqs).value]))

\* [tc.test_case_id for tc in test_cases if tc.requirement_id == req.requirement_id]
RECURSIVE LinkedIds(_, _)
LinkedIds(test_cases, req) ==
  IF test_cases = <<>> THEN <<>>
  ELSE (IF Attr(Head(test_cases), "requirement_id") = Attr(req, "requirement_id")
        THEN <<Attr(Head(test_cases), "test_case_id")>> ELSE <<>>)
       \o LinkedIds(Tail(test_cases), req)

\* healthcare_pipeline.py:499-509 with the coverage written as a flag: 1 when
\* the requirement has a test case, 0 when it has none
TraceabilityRow_CoverageFlag(req, linked) ==
  PyDict(<< <<(<<"requirement_id">>), Attr(req, "requirement_id")>>,
            <<(<<"requirement_title">>), Attr(req, "title")>>,
            <<(<<"priority">>), Attr(req, "priority")>>,
            <<(<<"risk_class">>), Attr(req, "risk_class")>>,
            <<(<<"iec_class">>), Attr(req, "iec_class")>>,
            <<(<<"test_cases">>), PyList(linked)>>,
            <<(<<"test_coverage">>), PyInt(IF Len(linked) > 0 THEN 1 ELSE 0)>>,
            <<(<<"compliance_standards">>), Attr(req, "compliance_standards")>>,
            <<(<<"regulatory_traceability">>), Attr(req, "traceability_links")>> >>)

\* healthcare_pipeline.py:499-509
TraceabilityRow(req, linked) ==
  PyDict(<< <<(<<"requirement_id">>), Attr(req, "requirement_id")>>,
            <<(<<"requirement_title">>), Attr(req, "title")>>,
            <<(<<"priority">>), Attr(req, "priority")>>,
            <<(<<"risk_class">>), Attr(req, "risk_class")>>,
            <<(<<"iec_class">>), Attr(req, "iec_class")>>,
            <<(<<"test_cases">>), PyList(linked)>>,
            <<(<<"test_coverage">>), PyInt(Len(linked))>>,
            <<(<<"compliance_standards">>), Attr(req, "compliance_standards")>>,
            <<(<<"regulatory_traceability">>), Attr(req, "traceability_links")>> >>)

\* [tc.test_case_id for tc in test_cases], the filter on the parent forgotten
AllIds(test_cases) == [j \in 1..Len(test_cases) |-> Attr(test_cases[j], "test_case_id")]

\* _generate_traceability_matrix linking every test case to every requirement
generate_traceability_matrix_Unfiltered(reqs, test_cases) ==
  Returned(PyList([i \in 1..Len(reqs) |-> TraceabilityRow(reqs[i], AllIds(test_cases))]))

\* HealthcareRAGPipeline._generate_traceability_matrix
generate_traceability_matrix(reqs, test_cases) ==
  Returned(PyList([i \in 1..Len(reqs) |->
                     TraceabilityRow(reqs[i], LinkedIds(test_cases, reqs[i]))]))

\* healthcare_pipeline.py:433-437
PolarionSteps(steps) ==
  PyList([i \in 1..Len(steps) |->
            PyDict(<< <<(<<"action">>), DictGet(steps[i], <<"action">>)>>,
                      <<(<<"expected_result">>), DictGet(steps[i], <<"expected_result">>)>> >>)])

\* healthcare_pipeline.py:424-437, the testcase element and its children
PolarionTestCase(tc, cites, steps) ==
  PyDict(<< <<(<<"id">>), Attr(tc, "test_case_id")>>,
            <<(<<"title">>), Attr(tc, "title")>>,
            <<(<<"requirement_link">>), Attr(tc, "requirement_id")>>,
            <<(<<"compliance_std">>), cites>>,
            <<(<<"risk_class">>), Attr(tc, "risk_category")>>,
            <<(<<"steps">>), steps>> >>)

\* one pass of the loop of export_to_polarion_format
PolarionExportOne(tc) ==
  IF PyJoin(<<",", SP>>, Attr(tc, "regulatory_citations")).raised # "none"
  THEN PyJoin(<<",", SP>>, Attr(tc, "regulatory_citations"))
  ELSE IF JiraStepsOf(PyIter(Attr(tc, "steps"))).raised # "none"
  THEN JiraStepsOf(PyIter(Attr(tc, "steps")))
  ELSE Returned(PolarionTestCase(tc, PyJoin(<<",", SP>>, Attr(tc, "regulatory_citations")).value,
                                 PolarionSteps(PyIter(Attr(tc, "steps")).items)))

\* HealthcareGeminiIntegration.export_to_polarion_format, the tree it serializes
export_to_polarion_format(test_cases) ==
  IF \E i \in 1..Len(test_cases) : PolarionExportOne(test_cases[i]).raised # "none"
  THEN Raised(PolarionExportOne(test_cases[CHOOSE i \in 1..Len(test_cases) :
       /\ PolarionExportOne(test_cases[i]).raised # "none"
       /\ \A j \in 1..(i - 1) : PolarionExportOne(test_cases[j]).raised = "none"]).raised)
  ELSE Returned(PyList([i \in 1..Len(test_cases) |-> PolarionExportOne(test_cases[i]).value]))

\* healthcare_pipeline.py:484-488; the percentage is rounded down
Summary(reqs, test_cases) ==
  PyDict(<< <<(<<"total_requirements">>), PyInt(Len(reqs))>>,
            <<(<<"total_test_cases">>), PyInt(Len(test_cases))>>,
            <<(<<"coverage_percentage">>),
              PyInt(IF Len(reqs) > 0 THEN (Len(test_cases) * 100) \div Len(reqs) ELSE 0)>> >>)

\* healthcare_pipeline.py:475-489, the value process_healthcare_document returns
Results(reqs, test_cases, jira, azure, polarion, matrix) ==
  PyDict(<< <<(<<"requirements">>), PyList(reqs)>>,
            <<(<<"test_cases">>), PyList(test_cases)>>,
            <<(<<"exports">>),
              PyDict(<< <<(<<"jira">>), jira>>, <<(<<"azure_devops">>), azure>>,
                        <<(<<"polarion">>), polarion>> >>)>>,
            <<(<<"traceability_matrix">>), matrix>>,
            <<(<<"summary">>), Summary(reqs, test_cases)>> >>)

\* healthcare_pipeline.py:467-489: the exception an export raises, or the results
process_results(reqs, test_cases) ==
  IF export_to_jira_format(test_cases, reqs).raised # "none"
  THEN [raised |-> export_to_jira_format(test_cases, reqs).raised,
        site |-> "export_to_jira_format", value |-> PyNone]
  ELSE IF export_to_azure_devops_format(test_cases, reqs).raised # "none"
  THEN [raised |-> export_to_azure_devops_format(test_cases, reqs).raised,
        site |-> "export_to_azure_devops_format", value |-> PyNone]
  ELSE IF export_to_polarion_format(test_cases).raised # "none"
  THEN [raised |-> export_to_polarion_format(test_cases).raised,
        site |-> "export_to_polarion_format", value |-> PyNone]
  ELSE [raised |-> "none", site |-> "none",
        value |-> Results(reqs, test_cases,
                          export_to_jira_format(test_cases, reqs).value,
                          export_to_azure_devops_format(test_cases, reqs).value,
                          export_to_polarion_format(test_cases).value,
                          generate_traceability_matrix(reqs, test_cases).value)]

\* ------------------------------------------------------------------------
\* healthcare_pipeline.py: HealthcareRAGPipeline and main
\* ------------------------------------------------------------------------
HealthClients == {"health.model", "health.search_client", "health.storage_client",
                  "pipeline.storage_client"}

\* an exception is caught by healthcare_pipeline.main (healthcare_pipeline.py:548-549)
HealthAbort(exc, site) ==
  /\ failure' = Failure(exc, site)
  /\ report' = "Pipeline failed"
  /\ pc' = "done"

\* HealthcareRAGPipeline.__init__ and HealthcareGeminiIntegration.__init__
\* (healthcare_pipeline.py:74-93, 448-450).  os.environ rejects None; the
\* clients that need application default credentials fail to construct when
\* the credential file does not exist, the generative model does not need it
H_Construct ==
  /\ program = "health" /\ pc = "h_construct"
  /\ IF "GCP_SERVICE_ACCOUNT_KEY_PATH" \notin environ
     THEN HealthAbort("TypeError", "os.environ") /\ UNCHANGED clients
     ELSE IF ValidateConfig(HealthRequiredVars, environ) # "none"
     THEN /\ HealthAbort(ValidateConfig(HealthRequiredVars, environ),
                         "HealthcareGeminiIntegration._validate_config")
          /\ UNCHANGED clients
     ELSE IF ~keyFile
     THEN /\ HealthAbort("DefaultCredentialsError", "SearchServiceClient")
          /\ clients' = clients \cup {"health.model"}
     ELSE /\ clients' = clients \cup HealthClients
          /\ pc' = "h_parse_requirements"
          /\ UNCHANGED <<failure, report>>
  /\ UNCHANGED <<setup, cloud, call, frame, program, environ, keyFile, engine_name, remoteEngine, requirements, idx,
                 compliance_context, all_test_cases, visited, perReq, calls, lastOp, outputFile>>

\* process_healthcare_document, step 1 (healthcare_pipeline.py:459, 462)
H_ParseRequirements ==
  /\ program = "health" /\ pc = "h_parse_requirements"
  /\ \E outcome \in ModelOutcomes(RequirementTexts) :
       lastOp' = parse_requirements_from_text(outcome)
  /\ requirements' = lastOp'.result
  /\ calls' = [calls EXCEPT !.model = @ + (IF lastOp'.called THEN 1 ELSE 0)]
  /\ all_test_cases' = <<>>
  /\ pc' = "h_next_requirement"
  /\ UNCHANGED <<setup, cloud, call, frame, program, environ, keyFile, clients, engine_name, remoteEngine, idx,
                 compliance_context, visited, perReq, failure, report, outputFile>>

\* process_healthcare_document, the head of the loop (healthcare_pipeline.py:463)
H_NextRequirement ==
  /\ program = "health" /\ pc = "h_next_requirement"
  /\ IF idx >= Len(requirements.v)
     THEN pc' = "h_write_results" /\ UNCHANGED <<idx, visited>>
     ELSE /\ idx' = idx + 1
          /\ visited' = Append(visited, idx + 1)
          /\ pc' = "h_generate"
  /\ UNCHANGED <<setup, cloud, call, frame, program, environ, keyFile, clients, engine_name, remoteEngine, requirements,
                 compliance_context, all_test_cases, perReq, calls, lastOp, failure, report,
                 outputFile>>

\* process_healthcare_document, the loop body (healthcare_pipeline.py:464-465):
\* generate_test_cases_for_requirement searches, then generates
H_Generate ==
  /\ program = "health" /\ pc = "h_generate"
  /\ \E searchOutcome \in HealthSearchOutcomes :
       compliance_context' = search_compliance_knowledge(searchOutcome)
  /\ \E outcome \in ModelOutcomes(TestCaseTexts) :
       lastOp' = generate_test_cases_for_requirement(requirements.v[idx], outcome)
  /\ calls' = [calls EXCEPT !.search = @ + 1,
                            !.model = @ + (IF lastOp'.called THEN 1 ELSE 0)]
  /\ all_test_cases' = all_test_cases \o lastOp'.result.v
  /\ perReq' = Append(perReq, lastOp'.result.v)
  /\ pc' = "h_next_requirement"
  /\ UNCHANGED <<setup, cloud, call, frame, program, environ, keyFile, clients, engine_name, remoteEngine, requirements,
                 idx, visited, failure, report, outputFile>>

\* what main does with r, the outcome of the exports
\* (healthcare_pipeline.py:534-549)
SaveResults(r) ==
  IF r.raised # "none"
  THEN HealthAbort(r.raised, r.site) /\ UNCHANGED outputFile
  ELSE /\ outputFile' = Written(r.value)
       /\ pc' = "done"
       /\ UNCHANGED <<failure, report>>

\* process_healthcare_document exports and returns, main saves the results
\* (healthcare_pipeline.py:467-489, 534-546)
H_WriteResults ==
  /\ program = "health" /\ pc = "h_write_results"
  /\ SaveResults(process_results(requirements.v, all_test_cases))
  /\ UNCHANGED <<setup, cloud, call, frame, program, environ, keyFile, clients, engine_name, remoteEngine,
                 requirements, idx, compliance_context, all_test_cases, visited, perReq, calls,
                 lastOp>>

\* ------------------------------------------------------------------------
\* Specification
\* ------------------------------------------------------------------------
Next ==
  \/ RAG_ConstructDay1
  \/ RAG_ConstructDay2
  \/ RAG_ConstructGemini
  \/ RAG_ReadDocument
  \/ RAG_ParseRequirements
  \/ RAG_NextRequirement
  \/ RAG_Search
  \/ RAG_Generate
  \/ RAG_WriteOutput
  \/ H_Construct
  \/ H_ParseRequirements
  \/ H_NextRequirement
  \/ H_Generate
  \/ H_WriteResults

Spec == Init /\ [][Next]_vars

\* ------------------------------------------------------------------------
\* setup_day1.py and setup_day2.py: the lookups, the steps of run_setup, main
\* ------------------------------------------------------------------------
\* the resource names of the processor and of the data store with the
\* configured display names
ProcessorResource == "processors/configured"
DataStoreResource == "dataStores/configured"

\* HealthcareQASetup.get_or_create_processor: the exception it re-raises, the
\* new processor_name, whether the processor exists afterwards and the number
\* of API calls made
get_or_create_processor(name, remote, listOutcome, createOutcome) ==
  IF listOutcome # "none"
  THEN [raised |-> listOutcome, site |-> "list_processors", name |-> name,
        remote |-> remote, apiCalls |-> 1]
  ELSE IF remote
  THEN [raised |-> "none", site |-> "none", name |-> ProcessorResource,
        remote |-> remote, apiCalls |-> 1]
  ELSE IF createOutcome # "none"
  THEN [raised |-> createOutcome, site |-> "create_processor", name |-> name,
        remote |-> remote, apiCalls |-> 2]
  ELSE [raised |-> "none", site |-> "none", name |-> ProcessorResource,
        remote |-> TRUE, apiCalls |-> 2]

\* get_or_create_data_store creating the data store without looking at the
\* ones that exist
get_or_create_data_store_CreatesAnyway(name, remote, listOutcome, createOutcome) ==
  IF listOutcome # "none"
  THEN [raised |-> listOutcome, site |-> "list_data_stores", name |-> name,
        remote |-> remote, apiCalls |-> 1]
  ELSE IF createOutcome # "none"
  THEN [raised |-> createOutcome, site |-> "create_data_store", name |-> name,
        remote |-> remote, apiCalls |-> 2]
  ELSE [raised |-> "none", site |-> "none", name |-> DataStoreResource,
        remote |-> TRUE, apiCalls |-> 2]

\* VertexAISearchSetup.get_or_create_data_store
get_or_create_data_store(name, remote, listOutcome, createOutcome) ==
  IF listOutcome # "none"
  THEN [raised |-> listOutcome, site |-> "list_data_stores", name |-> name,
        remote |-> remote, apiCalls |-> 1]
  ELSE IF remote
  THEN [raised |-> "none", site |-> "none", name |-> DataStoreResource,
        remote |-> remote, apiCalls |-> 1]
  ELSE IF createOutcome # "none"
  THEN [raised |-> createOutcome, site |-> "create_data_store", name |-> name,
        remote |-> remote, apiCalls |-> 2]
  ELSE [raised |-> "none", site |-> "none", name |-> DataStoreResource,
        remote |-> TRUE, apiCalls |-> 2]

\* what a lookup did: existed tells whether the resource was there before
\* it, created whether it issued the create call
Lookup(kind, existed, r) ==
  [kind |-> kind, existed |-> existed, created |-> r.apiCalls > 1, raised |-> r.raised]

\* the number of resources a lookup has created
Made(existed, r) == IF ~existed /\ r.remote THEN 1 ELSE 0

\* setup_day1.py:58-65, the keys of self.bucket_names in the order of the loop
BucketKeys == <<"raw", "processed", "structured", "unstructured", "error", "temp">>

BucketSet == {BucketKeys[i] : i \in 1..Len(BucketKeys)}

\* what create_bucket and bucket.patch can do for a bucket name: a name that
\* exists is a conflict
BucketOutcomes(bucket_name, buckets) ==
  IF bucket_name \in buckets THEN {"Conflict", "GoogleAPICallError"}
  ELSE {"created", "patch_failed", "GoogleAPICallError"}

\* one pass of the loop of create_gcs_buckets that re-raises the conflict
CreateBucket_ConflictRaises(bucket_name, buckets, outcome) ==
  IF outcome = "created"
  THEN [raised |-> "none", buckets |-> buckets \cup {bucket_name}, made |-> {bucket_name}]
  ELSE IF outcome = "patch_failed"
  THEN [raised |-> "GoogleAPICallError", buckets |-> buckets \cup {bucket_name},
        made |-> {bucket_name}]
  ELSE [raised |-> outcome, buckets |-> buckets, made |-> {}]

\* one pass of the loop of create_gcs_buckets (setup_day1.py:126-135): the
\* exception that leaves the loop, the buckets that exist, the bucket made
CreateBucket(bucket_name, buckets, outcome) ==
  IF outcome = "created"
  THEN [raised |-> "none", buckets |-> buckets \cup {bucket_name}, made |-> {bucket_name}]
  ELSE IF outcome = "patch_failed"
  THEN [raised |-> "GoogleAPICallError", buckets |-> buckets \cup {bucket_name},
        made |-> {bucket_name}]
  ELSE IF outcome = "Conflict"
  THEN [raised |-> "none", buckets |-> buckets, made |-> {}]
  ELSE [raised |-> outcome, buckets |-> buckets, made |-> {}]

\* the blobs of the sample document
RawBlob == <<"raw", "sample">>
FailedBlob == <<"error", "failed-sample">>
JsonBlob == <<"processed", "sample.json">>
StructuredBlob == <<"structured", "sample-structured.json">>
PdfBlob == <<"unstructured", "compliance.pdf">>

\* process_sample_document up to the upload (setup_day1.py:141-158)
upload_sample_document(processor_name, sample, getOutcome, uploadOutcome) ==
  IF processor_name = "" THEN [raised |-> "ValueError", site |-> "processor_name"]
  ELSE IF ~sample THEN [raised |-> "FileNotFoundError", site |-> "sample_doc_path"]
  ELSE IF getOutcome # "none" THEN [raised |-> getOutcome, site |-> "raw.get_bucket"]
  ELSE IF uploadOutcome # "none" THEN [raised |-> uploadOutcome, site |-> "upload_from_filename"]
  ELSE [raised |-> "none", site |-> "none"]

\* the calls of the try block of process_sample_document, in order
\* (setup_day1.py:176-191, 235-241)
ProcessSites ==
  <<"process_document", "processed.get_bucket", "processed.upload_from_string",
    "_get_text", "structured.get_bucket", "structured.upload_from_string">>

\* what the try block can do: succeed, or raise at one of its calls; the
\* vendor calls raise an API error, the parsing any other exception
ProcessOutcomes ==
  {[raised |-> "none", at |-> Len(ProcessSites) + 1]}
    \cup {[raised |-> IF ProcessSites[i] = "_get_text" THEN "Exception"
                      ELSE "GoogleAPICallError",
           at |-> i] : i \in 1..Len(ProcessSites)}

\* the blobs the try block has written when it ends
ProcessedBlobs(outcome) ==
  (IF \E i \in 1..(outcome.at - 1) : ProcessSites[i] = "processed.upload_from_string"
   THEN {JsonBlob} ELSE {})
    \cup (IF outcome.raised = "none" THEN {StructuredBlob} ELSE {})

\* which call of the except branch of process_sample_document raises
MoveOutcomes == {"none", "error.get_bucket", "copy_blob", "blob.delete"}

\* the except branch of process_sample_document (setup_day1.py:193-200): the
\* document is copied to the error bucket, then deleted from the raw bucket,
\* and the error is raised again; a call of the branch that raises leaves it
MoveFailed(blobs, site, moveOutcome) ==
  IF moveOutcome \in {"error.get_bucket", "copy_blob"}
  THEN [raised |-> "GoogleAPICallError", site |-> moveOutcome, blobs |-> blobs]
  ELSE IF moveOutcome = "blob.delete"
  THEN [raised |-> "GoogleAPICallError", site |-> moveOutcome,
        blobs |-> blobs \cup {FailedBlob}]
  ELSE [raised |-> "GoogleAPICallError", site |-> site,
        blobs |-> (blobs \ {RawBlob}) \cup {FailedBlob}]

\* process_sample_document after the upload (setup_day1.py:160-200)
process_document(blobs, outcome, moveOutcome) ==
  IF outcome.raised = "none"
  THEN [raised |-> "none", site |-> "none", blobs |-> blobs \cup ProcessedBlobs(outcome)]
  ELSE IF outcome.raised = "GoogleAPICallError"
  THEN MoveFailed(blobs \cup ProcessedBlobs(outcome), ProcessSites[outcome.at], moveOutcome)
  ELSE [raised |-> outcome.raised, site |-> ProcessSites[outcome.at],
        blobs |-> blobs \cup ProcessedBlobs(outcome)]

\* VertexAISearchSetup.import_compliance_documents (setup_day2.py:167-227)
import_compliance_documents(data_store_name, buckets, pdfs, getOutcome, uploadOutcome, importOutcome) ==
  IF data_store_name = ""
  THEN [raised |-> "ValueError", site |-> "data_store_name", uploaded |-> FALSE,
        imported |-> FALSE]
  ELSE IF "unstructured" \notin buckets
  THEN [raised |-> "NotFound", site |-> "unstructured.get_bucket", uploaded |-> FALSE,
        imported |-> FALSE]
  ELSE IF getOutcome # "none"
  THEN [raised |-> getOutcome, site |-> "unstructured.get_bucket", uploaded |-> FALSE,
        imported |-> FALSE]
  ELSE IF ~pdfs
  THEN [raised |-> "none", site |-> "none", uploaded |-> FALSE, imported |-> FALSE]
  ELSE IF uploadOutcome # "none"
  THEN [raised |-> uploadOutcome, site |-> "upload_from_filename", uploaded |-> FALSE,
        imported |-> FALSE]
  ELSE IF importOutcome # "none"
  THEN [raised |-> importOutcome, site |-> "import_documents", uploaded |-> TRUE,
        imported |-> FALSE]
  ELSE [raised |-> "none", site |-> "none", uploaded |-> TRUE, imported |-> TRUE]

\* setup_day1.py:262-264 and setup_day2.py:285-287, the steps of run_setup
Day1Steps == <<"get_or_create_processor", "create_gcs_buckets", "process_sample_document">>
Day2Steps == <<"get_or_create_data_store", "get_or_create_engine",
               "import_compliance_documents">>

SetupPrograms == {"setup_day1", "setup_day2"}

\* the variables run_setup does not touch
untouched ==
  <<requirements, idx, compliance_context, all_test_cases, visited, perReq, calls, lastOp,
    outputFile, call, frame>>

\* main catches the exception of the constructor
\* (setup_day1.py:279-282, setup_day2.py:302-305)
MainCatches(exc, site) ==
  /\ failure' = Failure(exc, site)
  /\ report' = RagReport(exc)
  /\ pc' = "done"

\* run_setup catching the vendor's errors only: any other exception reaches main
RunSetupCatches_ApiErrorsOnly(exc, site) ==
  /\ failure' = Failure(exc, site)
  /\ report' = IF exc = "GoogleAPICallError" THEN "Setup Failed" ELSE RagReport(exc)
  /\ pc' = "done"

\* run_setup catches the exception of a step, logs it and returns
\* (setup_day1.py:267-269, setup_day2.py:290-292)
RunSetupCatches(exc, site) ==
  /\ failure' = Failure(exc, site)
  /\ report' = "Setup Failed"
  /\ pc' = "done"

\* the step has ended: with the exception raised, or run_setup goes on at next
StepEnds(raised, site, next) ==
  IF raised # "none" THEN RunSetupCatches(raised, site)
  ELSE pc' = next /\ UNCHANGED <<failure, report>>

\* HealthcareQASetup.__init__ in setup_day1.main (setup_day1.py:37-65, 277)
D1_Construct ==
  /\ program = "setup_day1" /\ pc = "construct"
  /\ IF ValidateConfigWithKeyFile(Day1RequiredVars, environ, keyFile) # "none"
     THEN /\ MainCatches(ValidateConfigWithKeyFile(Day1RequiredVars, environ, keyFile),
                         "HealthcareQASetup._validate_config")
          /\ UNCHANGED clients
     ELSE /\ clients' = Day1Clients
          /\ pc' = "get_or_create_processor"
          /\ UNCHANGED <<failure, report>>
  /\ setup' = NewSetup
  /\ UNCHANGED <<program, environ, keyFile, engine_name, remoteEngine, cloud, untouched>>

\* what run_setup does with r, the outcome of get_or_create_processor
ProcessorLookedUp(r) ==
  /\ setup' = [setup EXCEPT !.processor_name = r.name,
                            !.steps = Append(@, "get_or_create_processor"),
                            !.lookup = Lookup("processor", cloud.processor, r)]
  /\ cloud' = [cloud EXCEPT !.processor = r.remote,
                            !.created.processor = @ + Made(cloud.processor, r)]
  /\ StepEnds(r.raised, r.site, "create_gcs_buckets")

\* run_setup, step 1 of day 1 (setup_day1.py:262)
D1_GetOrCreateProcessor ==
  /\ program = "setup_day1" /\ pc = "get_or_create_processor"
  /\ \E listOutcome \in ApiOutcomes, createOutcome \in ApiOutcomes :
       ProcessorLookedUp(get_or_create_processor(setup.processor_name, cloud.processor,
                                                 listOutcome, createOutcome))
  /\ UNCHANGED <<program, environ, keyFile, clients, engine_name, remoteEngine, untouched>>

\* what the loop of create_gcs_buckets does with r, the outcome of one pass
BucketPassed(r, outcome) ==
  /\ setup' = [setup EXCEPT !.bucket_at = @ + 1,
                            !.last_bucket = outcome,
                            !.steps = IF setup.bucket_at = 0
                                      THEN Append(@, "create_gcs_buckets") ELSE @]
  /\ cloud' = [cloud EXCEPT !.buckets = r.buckets, !.made = @ \cup r.made]
  /\ StepEnds(r.raised, "create_gcs_buckets",
              IF setup.bucket_at + 1 = Len(BucketKeys) THEN "process_sample_document"
              ELSE "create_gcs_buckets")

\* run_setup, step 2 of day 1: one pass of the loop of create_gcs_buckets
\* (setup_day1.py:125-135, 263)
D1_CreateBucket ==
  /\ program = "setup_day1" /\ pc = "create_gcs_buckets"
  /\ setup.bucket_at < Len(BucketKeys)
  /\ \E outcome \in BucketOutcomes(BucketKeys[setup.bucket_at + 1], cloud.buckets) :
       BucketPassed(CreateBucket(BucketKeys[setup.bucket_at + 1], cloud.buckets, outcome),
                    outcome)
  /\ UNCHANGED <<program, environ, keyFile, clients, engine_name, remoteEngine, untouched>>

\* what process_sample_document does with r, the outcome of the upload
SampleUploaded(r) ==
  /\ setup' = [setup EXCEPT !.steps = Append(@, "process_sample_document"),
                            !.uploaded = (r.raised = "none")]
  /\ cloud' = [cloud EXCEPT !.blobs = IF r.raised = "none" THEN @ \cup {RawBlob} ELSE @]
  /\ StepEnds(r.raised, r.site, "process_document")

\* run_setup, step 3 of day 1: process_sample_document uploads the sample
\* document (setup_day1.py:141-158, 264)
D1_UploadSample ==
  /\ program = "setup_day1" /\ pc = "process_sample_document"
  /\ \E getOutcome \in ApiOutcomes, uploadOutcome \in {"none", "Exception"} :
       SampleUploaded(upload_sample_document(setup.processor_name, cloud.sample,
                                             getOutcome, uploadOutcome))
  /\ UNCHANGED <<program, environ, keyFile, clients, engine_name, remoteEngine, untouched>>

\* what process_sample_document does with r, the outcome of the processing
SampleProcessed(r) ==
  /\ cloud' = [cloud EXCEPT !.blobs = r.blobs]
  /\ StepEnds(r.raised, r.site, "done")

\* run_setup, step 3 of day 1: process_sample_document processes the uploaded
\* document (setup_day1.py:160-200)
D1_ProcessSample ==
  /\ program = "setup_day1" /\ pc = "process_document"
  /\ \E outcome \in ProcessOutcomes, moveOutcome \in MoveOutcomes :
       SampleProcessed(process_document(cloud.blobs, outcome, moveOutcome))
  /\ UNCHANGED <<program, environ, keyFile, clients, engine_name, remoteEngine, setup,
                 untouched>>

\* VertexAISearchSetup.__init__ in setup_day2.main (setup_day2.py:36-62, 300)
D2_Construct ==
  /\ program = "setup_day2" /\ pc = "construct"
  /\ IF ValidateConfigWithKeyFile(Day2RequiredVars, environ, keyFile) # "none"
     THEN /\ MainCatches(ValidateConfigWithKeyFile(Day2RequiredVars, environ, keyFile),
                         "VertexAISearchSetup._validate_config")
          /\ UNCHANGED clients
     ELSE /\ clients' = Day2Clients
          /\ pc' = "get_or_create_data_store"
          /\ UNCHANGED <<failure, report>>
  /\ setup' = NewSetup
  /\ engine_name' = ""
  /\ UNCHANGED <<program, environ, keyFile, remoteEngine, cloud, untouched>>

\* what run_setup does with r, the outcome of get_or_create_data_store
DataStoreLookedUp(r) ==
  /\ setup' = [setup EXCEPT !.data_store_name = r.name,
                            !.steps = Append(@, "get_or_create_data_store"),
                            !.lookup = Lookup("data_store", cloud.data_store, r)]
  /\ cloud' = [cloud EXCEPT !.data_store = r.remote,
                            !.created.data_store = @ + Made(cloud.data_store, r)]
  /\ StepEnds(r.raised, r.site, "get_or_create_engine")

\* run_setup, step 1 of day 2 (setup_day2.py:285)
D2_GetOrCreateDataStore ==
  /\ program = "setup_day2" /\ pc = "get_or_create_data_store"
  /\ \E listOutcome \in ApiOutcomes, createOutcome \in ApiOutcomes :
       DataStoreLookedUp(get_or_create_data_store(setup.data_store_name, cloud.data_store,
                                                  listOutcome, createOutcome))
  /\ UNCHANGED <<program, environ, keyFile, clients, engine_name, remoteEngine, untouched>>

\* what run_setup does with r, the outcome of get_or_create_engine
EngineLookedUp(r) ==
  /\ engine_name' = r.engine_name
  /\ remoteEngine' = r.remote
  /\ setup' = [setup EXCEPT !.steps = Append(@, "get_or_create_engine"),
                            !.lookup = Lookup("engine", remoteEngine, r)]
  /\ cloud' = [cloud EXCEPT !.created.engine = @ + Made(remoteEngine, r)]
  /\ StepEnds(r.raised, r.site, "import_compliance_documents")

\* run_setup, step 2 of day 2 (setup_day2.py:286)
D2_GetOrCreateEngine ==
  /\ program = "setup_day2" /\ pc = "get_or_create_engine"
  /\ \E listOutcome \in ApiOutcomes, createOutcome \in ApiOutcomes :
       EngineLookedUp(get_or_create_engine(engine_name, remoteEngine, listOutcome,
                                           createOutcome))
  /\ UNCHANGED <<program, environ, keyFile, clients, untouched>>

\* what run_setup does with r, the outcome of import_compliance_documents
DocumentsImported(r) ==
  /\ setup' = [setup EXCEPT !.steps = Append(@, "import_compliance_documents")]
  /\ cloud' = [cloud EXCEPT !.blobs = IF r.uploaded THEN @ \cup {PdfBlob} ELSE @,
                            !.imported = r.imported]
  /\ StepEnds(r.raised, r.site, "done")

\* run_setup, step 3 of day 2 (setup_day2.py:287)
D2_ImportDocuments ==
  /\ program = "setup_day2" /\ pc = "import_compliance_documents"
  /\ \E getOutcome \in ApiOutcomes, uploadOutcome \in {"none", "Exception"},
        importOutcome \in ApiOutcomes :
       DocumentsImported(import_compliance_documents(setup.data_store_name, cloud.buckets,
                                                     cloud.pdfs, getOutcome, uploadOutcome,
                                                     importOutcome))
  /\ UNCHANGED <<program, environ, keyFile, clients, engine_name, remoteEngine, untouched>>

\* the project and the local files a setup program can find
InitialClouds(prog) ==
  IF prog = "setup_day1"
  THEN {[EmptyCloud EXCEPT !.processor = p, !.buckets = b, !.sample = f] :
          p \in BOOLEAN, b \in SUBSET BucketSet, f \in BOOLEAN}
  ELSE {[EmptyCloud EXCEPT !.data_store = d, !.buckets = b, !.pdfs = f] :
          d \in BOOLEAN, b \in {{}, {"unstructured"}}, f \in BOOLEAN}

\* setup_day1.main or setup_day2.main is started
SetupInit ==
  /\ program \in SetupPrograms
  /\ environ \in Environments
  /\ keyFile \in BOOLEAN
  /\ pc = "construct"
  /\ clients = {}
  /\ engine_name = ""
  /\ remoteEngine \in (IF program = "setup_day2" THEN BOOLEAN ELSE {FALSE})
  /\ setup = NewSetup
  /\ cloud \in InitialClouds(program)
  /\ requirements = PyNone
  /\ idx = 0
  /\ compliance_context = NoContext
  /\ all_test_cases = <<>>
  /\ visited = <<>>
  /\ perReq = <<>>
  /\ calls = [model |-> 0, search |-> 0, engine |-> 0]
  /\ lastOp = NoOp
  /\ failure = NoFailure
  /\ report = "none"
  /\ outputFile = Absent
  /\ call = NotApplied
  /\ frame = NoFrame

SetupNext ==
  \/ D1_Construct
  \/ D1_GetOrCreateProcessor
  \/ D1_CreateBucket
  \/ D1_UploadSample
  \/ D1_ProcessSample
  \/ D2_Construct
  \/ D2_GetOrCreateDataStore
  \/ D2_GetOrCreateEngine
  \/ D2_ImportDocuments

SetupSpec == SetupInit /\ [][SetupNext]_vars

\* ------------------------------------------------------------------------
\* The functions applied on their own to texts and batches the pipelines
\* above never produce
\* ------------------------------------------------------------------------
pipeline ==
  <<program, environ, keyFile, pc, clients, engine_name, remoteEngine, requirements,
    idx, compliance_context, all_test_cases, visited, perReq, calls, lastOp,
    failure, report, outputFile>>

\* the contents of the string values of the JSON texts: a plain word, a comma
\* followed by a closing bracket or brace, a code fence marker
StringBodies == {<<"x">>, <<",", "]">>, <<",", SP, "}">>, Fence, FenceJson}

\* the objects of the arrays: {"a": 1} and {"a": "<body>"}
JsonObjects ==
  {PyDict(<< <<(<<"a">>), PyInt(1)>> >>)}
    \cup {PyDict(<< <<(<<"a">>), PyStr(b)>> >>) : b \in StringBodies}

\* the arrays of at most MaxItems objects
JsonArrays == {PyList(xs) : xs \in UNION {[1..n -> JsonObjects] : n \in 0..MaxItems}}

\* the blanks written before a closing bracket or brace
Blanks == {<<>>, <<SP>>, <<NL, SP>>}

\* where a comma is written after the last element: in no container, in the
\* outermost one, in every one
TrailingCommas == {"none", "outer", "all"}

\* the trailing commas of the containers inside the outermost one
Inner(trailing) == IF trailing = "all" THEN "all" ELSE "none"

\* what ends a container of n elements: the trailing comma, the blanks, the closer
Closer(n, trailing, blank, close) ==
  (IF trailing # "none" /\ n > 0 THEN <<",">> ELSE <<>>) \o blank \o <<close>>

RECURSIVE JsonDumps(_, _, _)
RECURSIVE DumpElems(_, _, _, _)
RECURSIVE DumpMembers(_, _, _, _)

DumpElems(xs, i, trailing, blank) ==
  IF i > Len(xs) THEN <<>>
  ELSE JsonDumps(xs[i], trailing, blank)
       \o (IF i < Len(xs) THEN <<",">> ELSE <<>>)
       \o DumpElems(xs, i + 1, trailing, blank)

DumpMembers(items, i, trailing, blank) ==
  IF i > Len(items) THEN <<>>
  ELSE Str(items[i][1]) \o <<":">> \o JsonDumps(items[i][2], trailing, blank)
       \o (IF i < Len(items) THEN <<",">> ELSE <<>>)
       \o DumpMembers(items, i + 1, trailing, blank)

\* the JSON text of a value, its non-empty arrays and objects written with
\* the trailing commas and the blanks given
JsonDumps(val, trailing, blank) ==
  IF val.t = "int" THEN <<DigitSym(val.v)>>
  ELSE IF val.t = "str" THEN Str(val.v)
  ELSE IF val.t = "list"
  THEN <<"[">> \o DumpElems(val.v, 1, Inner(trailing), blank)
       \o Closer(Len(val.v), trailing, blank, "]")
  ELSE <<"{">> \o DumpMembers(val.v, 1, Inner(trailing), blank)
       \o Closer(Len(val.v), trailing, blank, "}")

\* the code fences a text is wrapped in: none, an untagged one, one tagged
\* json, one tagged with another language
Fences == {"none", "plain", "json", "python"}

Wrap(fence, text) ==
  IF fence = "none" THEN text
  ELSE IF fence = "plain" THEN Fence \o <<NL>> \o text \o <<NL>> \o Fence
  ELSE Fence \o <<fence, NL>> \o text \o <<NL>> \o Fence

\* the functions that take the text of a model response
TextFunctions == {"_parse_gemini_json_response", "parse_requirements_from_text"}

\* a call of fn with the text of value, written with the given layout
TextCall(fn, value, trailing, blank, fence) ==
  [fn |-> fn, response_text |-> Wrap(fence, JsonDumps(value, trailing, blank)),
   value |-> value, trailing |-> trailing, blank |-> blank, fence |-> fence]

TextCalls ==
  {TextCall(fn, value, trailing, blank, fence) :
     fn \in TextFunctions, value \in JsonArrays, trailing \in TrailingCommas,
     blank \in Blanks, fence \in Fences}

\* _parse_gemini_json_response, gemini_integration.py:74
Fn_StripFences ==
  /\ call.fn = "_parse_gemini_json_response" /\ frame.pc = "called"
  /\ frame' = [pc |-> "stripped", cleaned_response |-> StripFences(call.response_text)]
  /\ UNCHANGED <<call, pipeline, setup, cloud>>

\* _parse_gemini_json_response, gemini_integration.py:79-80
Fn_RepairCommas ==
  /\ call.fn = "_parse_gemini_json_response" /\ frame.pc = "stripped"
  /\ frame' = [pc |-> "repaired",
               cleaned_response |->
                 ReSubTrailingComma(ReSubTrailingComma(frame.cleaned_response, "]"), "}")]
  /\ UNCHANGED <<call, pipeline, setup, cloud>>

\* _parse_gemini_json_response, gemini_integration.py:82-87
Fn_JsonLoads ==
  /\ call.fn = "_parse_gemini_json_response" /\ frame.pc = "repaired"
  /\ frame' = [pc |-> "returned", cleaned_response |-> frame.cleaned_response,
               ret |-> ReturnOrRaise(JsonLoads(frame.cleaned_response))]
  /\ UNCHANGED <<call, pipeline, setup, cloud>>

\* parse_requirements_from_text, healthcare_pipeline.py:249-253
Fn_ExtractAndLoad ==
  /\ call.fn = "parse_requirements_from_text" /\ frame.pc = "called"
  /\ frame' = [pc |-> "returned", cleaned_response |-> ExtractFenced(call.response_text),
               ret |-> ReturnOrRaise(JsonLoads(ExtractFenced(call.response_text)))]
  /\ UNCHANGED <<call, pipeline, setup, cloud>>

\* a requirement of a batch: the sample one with its identifier and its
\* compliance standards replaced
BatchRequirement(id, standards) ==
  Instance("HealthcareRequirement",
           DictSet(DictSet(SampleRequirement.v, <<"requirement_id">>, PyStr(id)),
                   <<"compliance_standards">>, PyStrList(standards)))

\* the i-th test case of a batch, generated for the requirement named parent
BatchTestCase(i, parent) ==
  Instance("HealthcareTestCase",
           DictSet(DictSet(SampleTestCase(SampleRequirement).v,
                           <<"test_case_id">>, PyStr(<<"TC-", DigitSym(i)>>)),
                   <<"requirement_id">>, PyStr(parent)))

BatchRequirements ==
  {BatchRequirement(id, standards) :
     id \in {<<"REQ-1">>, <<"REQ-2">>},
     standards \in {<<>>, << <<"FDA">>, <<"IEC", SP, "62304">> >>}}

\* the identifiers a test case names as its parent: REQ-9 is in no batch
ParentIds == {<<"REQ-1">>, <<"REQ-9">>}

RequirementBatches == UNION {[1..n -> BatchRequirements] : n \in 0..MaxBatch}

TestCaseBatches ==
  {[i \in 1..Len(parents) |-> BatchTestCase(i, parents[i])] :
     parents \in UNION {[1..n -> ParentIds] : n \in 0..MaxBatch}}

\* the functions that take the requirements and the test cases of a batch
BatchFunctions ==
  {"export_to_jira_format", "export_to_azure_devops_format", "_generate_traceability_matrix"}

\* export_to_polarion_format takes the test cases only
BatchCalls ==
  {[fn |-> fn, requirements |-> reqs, test_cases |-> tcs] :
     fn \in BatchFunctions, reqs \in RequirementBatches, tcs \in TestCaseBatches}
    \cup {[fn |-> "export_to_polarion_format", requirements |-> <<>>, test_cases |-> tcs] :
            tcs \in TestCaseBatches}

\* HealthcareGeminiIntegration.export_to_jira_format
Fn_ExportJira ==
  /\ call.fn = "export_to_jira_format" /\ frame.pc = "called"
  /\ frame' = [pc |-> "returned",
               ret |-> export_to_jira_format(call.test_cases, call.requirements)]
  /\ UNCHANGED <<call, pipeline, setup, cloud>>

\* HealthcareGeminiIntegration.export_to_azure_devops_format
Fn_ExportAzure ==
  /\ call.fn = "export_to_azure_devops_format" /\ frame.pc = "called"
  /\ frame' = [pc |-> "returned",
               ret |-> export_to_azure_devops_format(call.test_cases, call.requirements)]
  /\ UNCHANGED <<call, pipeline, setup, cloud>>

\* HealthcareGeminiIntegration.export_to_polarion_format
Fn_ExportPolarion ==
  /\ call.fn = "export_to_polarion_format" /\ frame.pc = "called"
  /\ frame' = [pc |-> "returned", ret |-> export_to_polarion_format(call.test_cases)]
  /\ UNCHANGED <<call, pipeline, setup, cloud>>

\* HealthcareRAGPipeline._generate_traceability_matrix
Fn_Traceability ==
  /\ call.fn = "_generate_traceability_matrix" /\ frame.pc = "called"
  /\ frame' = [pc |-> "returned",
               ret |-> generate_traceability_matrix(call.requirements, call.test_cases)]
  /\ UNCHANGED <<call, pipeline, setup, cloud>>

\* the loops that map the parsed array into records
\* (healthcare_pipeline.py:255-258 and 327-330); the prompts of the pipeline
\* above never get that far
MapFunctions == {"parse_requirements_from_text.map", "generate_test_cases_for_requirement.map"}

MappedClass(fn) ==
  IF fn = "parse_requirements_from_text.map" THEN "HealthcareRequirement"
  ELSE "HealthcareTestCase"

MappedFields(fn) ==
  IF fn = "parse_requirements_from_text.map" THEN RequirementFields ELSE TestCaseFields

\* the placeholder the except branch of the function returns
MapFallback(fn) ==
  IF fn = "parse_requirements_from_text.map" THEN SampleRequirement
  ELSE SampleTestCase(SampleRequirement)

\* the identifier field of the records of the function
MappedIdField(fn) ==
  IF fn = "parse_requirements_from_text.map" THEN <<"requirement_id">> ELSE <<"test_case_id">>

\* the items of a mapping without the key k
Without(items, k) == SelectSeq(items, LAMBDA it : it[1] # k)

\* the objects of a parsed array: two complete ones, one that misses a
\* field, one that has an unexpected field, and a number
ParsedObjects(fn) ==
  {PyDict(DictSet(MapFallback(fn).v, MappedIdField(fn), PyStr(<<"ID-1">>))),
   PyDict(DictSet(MapFallback(fn).v, MappedIdField(fn), PyStr(<<"ID-2">>))),
   PyDict(Without(MapFallback(fn).v, <<"title">>)),
   PyDict(DictSet(MapFallback(fn).v, <<"owner">>, PyStr(<<"x">>))),
   PyInt(1)}

MapCalls ==
  {[fn |-> fn, data |-> data] :
     fn \in MapFunctions,
     data \in UNION {[1..n -> ParsedObjects(f)] : n \in 0..MaxBatch, f \in MapFunctions}}

\* the records appended so far
MappedSoFar(fr) == IF fr.pc = "mapping" THEN fr.mapped ELSE <<>>

\* one pass of the loop that mixes the placeholder with the records mapped
\* before the failure
MapStep_KeepsMapped(cls, fields, mapped, obj, fallback) ==
  IF MapDataclass(cls, fields, obj).raised # "none"
  THEN [pc |-> "returned", mapped |-> mapped, ret |-> PyList(Append(mapped, fallback))]
  ELSE [pc |-> "mapping", mapped |-> Append(mapped, MapDataclass(cls, fields, obj).value)]

\* one pass of the loop (healthcare_pipeline.py:257-258, 329-330): the record
\* is appended, or the exception of the constructor is caught by the except
\* branch of the function (lines 261-276, 333-351), which returns the placeholder
MapStep(cls, fields, mapped, obj, fallback) ==
  IF MapDataclass(cls, fields, obj).raised # "none"
  THEN [pc |-> "returned", mapped |-> mapped, ret |-> PyList(<<fallback>>)]
  ELSE [pc |-> "mapping", mapped |-> Append(mapped, MapDataclass(cls, fields, obj).value)]

\* the loop maps the next object of the array
Fn_MapNext ==
  /\ call.fn \in MapFunctions /\ frame.pc \in {"called", "mapping"}
  /\ Len(MappedSoFar(frame)) < Len(call.data)
  /\ frame' = MapStep(MappedClass(call.fn), MappedFields(call.fn), MappedSoFar(frame),
                      call.data[Len(MappedSoFar(frame)) + 1], MapFallback(call.fn))
  /\ UNCHANGED <<call, pipeline, setup, cloud>>

\* the loop is over and the function returns the records
\* (healthcare_pipeline.py:259-260, 331-332)
Fn_MapReturn ==
  /\ call.fn \in MapFunctions /\ frame.pc \in {"called", "mapping"}
  /\ Len(MappedSoFar(frame)) = Len(call.data)
  /\ frame' = [pc |-> "returned", mapped |-> MappedSoFar(frame),
               ret |-> PyList(MappedSoFar(frame))]
  /\ UNCHANGED <<call, pipeline, setup, cloud>>

\* setup_day1.py:219-220: the names and the values of the form fields of a
\* processed document, as _get_text reads them
FieldNames ==
  {<<"Requirement", SP, "ID", ":">>, <<SP, "Sub-Requirement", SP, "ID">>,
   <<"Title", ":">>, <<"Priority">>}
FieldValues == {<<"a">>, <<SP, "b">>}
FormFields == [field_name : FieldNames, field_value : FieldValues]

\* pat in s
Contains(s, pat) ==
  \E i \in 1..(Len(s) - Len(pat) + 1) : SubSeq(s, i, i + Len(pat) - 1) = pat

\* setup_day1.py:219
CleanFieldName(text) == Replace(Strip(text), <<":">>, <<>>)

\* one pass of the loop that attaches a field to the current record even
\* when no record has been started
GroupField_NoGuard(extracted_requirements, current_requirement, field) ==
  IF Contains(CleanFieldName(field.field_name), <<"Requirement", SP, "ID">>)
  THEN [extracted_requirements |->
          IF Truthy(current_requirement)
          THEN Append(extracted_requirements, current_requirement)
          ELSE extracted_requirements,
        current_requirement |->
          PyDict(<< <<(<<"Requirement", SP, "ID">>), PyStr(Strip(field.field_value))>> >>)]
  ELSE [extracted_requirements |-> extracted_requirements,
        current_requirement |->
          PyDict(DictSet(current_requirement.v, CleanFieldName(field.field_name),
                         PyStr(Strip(field.field_value))))]

\* one pass of the loop of _parse_and_structure_document (setup_day1.py:219-227)
GroupField(extracted_requirements, current_requirement, field) ==
  IF Contains(CleanFieldName(field.field_name), <<"Requirement", SP, "ID">>)
  THEN [extracted_requirements |->
          IF Truthy(current_requirement)
          THEN Append(extracted_requirements, current_requirement)
          ELSE extracted_requirements,
        current_requirement |->
          PyDict(<< <<(<<"Requirement", SP, "ID">>), PyStr(Strip(field.field_value))>> >>)]
  ELSE IF Truthy(current_requirement)
  THEN [extracted_requirements |-> extracted_requirements,
        current_requirement |->
          PyDict(DictSet(current_requirement.v, CleanFieldName(field.field_name),
                         PyStr(Strip(field.field_value))))]
  ELSE [extracted_requirements |-> extracted_requirements,
        current_requirement |-> current_requirement]

GroupCalls ==
  {[fn |-> "_parse_and_structure_document", form_fields |-> fields] :
     fields \in UNION {[1..n -> FormFields] : n \in 0..MaxFields}}

\* setup_day1.py:214-215
Fn_GroupStart ==
  /\ call.fn = "_parse_and_structure_document" /\ frame.pc = "called"
  /\ frame' = [pc |-> "grouping", at |-> 0, extracted_requirements |-> <<>>,
               current_requirement |-> PyDict(<<>>)]
  /\ UNCHANGED <<call, pipeline, setup, cloud>>

\* setup_day1.py:217-227: the loop takes the next form field of the document
Fn_GroupField ==
  /\ call.fn = "_parse_and_structure_document" /\ frame.pc = "grouping"
  /\ frame.at < Len(call.form_fields)
  /\ frame' = [pc |-> "grouping", at |-> frame.at + 1,
               extracted_requirements |->
                 GroupField(frame.extracted_requirements, frame.current_requirement,
                            call.form_fields[frame.at + 1]).extracted_requirements,
               current_requirement |->
                 GroupField(frame.extracted_requirements, frame.current_requirement,
                            call.form_fields[frame.at + 1]).current_requirement]
  /\ UNCHANGED <<call, pipeline, setup, cloud>>

\* setup_day1.py:229-232: the loop is over
Fn_GroupEnd ==
  /\ call.fn = "_parse_and_structure_document" /\ frame.pc = "grouping"
  /\ frame.at = Len(call.form_fields)
  /\ frame' = [pc |-> "returned",
               extracted_requirements |->
                 IF Truthy(frame.current_requirement)
                 THEN Append(frame.extracted_requirements, frame.current_requirement)
                 ELSE frame.extracted_requirements]
  /\ UNCHANGED <<call, pipeline, setup, cloud>>

\* the lookups called several times in a row on one object
GetOrCreateFunctions ==
  {"get_or_create_processor", "get_or_create_data_store", "get_or_create_engine"}

\* exists: the resource with the configured display name is there at the start
GetOrCreateCalls == [fn : GetOrCreateFunctions, exists : BOOLEAN]

\* the project a call starts with
CloudOf(c) ==
  IF c.fn = "get_or_create_processor" THEN [EmptyCloud EXCEPT !.processor = c.exists]
  ELSE IF c.fn = "get_or_create_data_store" THEN [EmptyCloud EXCEPT !.data_store = c.exists]
  ELSE EmptyCloud

\* the number of calls made so far
CallsMade(fr) == IF fr.pc = "returned" THEN fr.calls ELSE 0

\* the variables a lookup of the processor or of the data store leaves alone
unlooked ==
  <<program, environ, keyFile, pc, clients, requirements, idx, compliance_context,
    all_test_cases, visited, perReq, calls, lastOp, failure, report, outputFile>>

\* HealthcareQASetup.get_or_create_processor, called once more
Fn_GetOrCreateProcessor ==
  /\ call.fn = "get_or_create_processor" /\ CallsMade(frame) < MaxCalls
  /\ \E listOutcome \in ApiOutcomes, createOutcome \in ApiOutcomes :
       /\ setup' = [setup EXCEPT
            !.processor_name = get_or_create_processor(setup.processor_name, cloud.processor,
                                                       listOutcome, createOutcome).name,
            !.lookup = Lookup("processor", cloud.processor,
                              get_or_create_processor(setup.processor_name, cloud.processor,
                                                      listOutcome, createOutcome))]
       /\ cloud' = [cloud EXCEPT
            !.processor = get_or_create_processor(setup.processor_name, cloud.processor,
                                                  listOutcome, createOutcome).remote,
            !.created.processor =
               @ + Made(cloud.processor,
                        get_or_create_processor(setup.processor_name, cloud.processor,
                                                listOutcome, createOutcome))]
  /\ frame' = [pc |-> "returned", calls |-> CallsMade(frame) + 1]
  /\ UNCHANGED <<call, engine_name, remoteEngine, unlooked>>

\* VertexAISearchSetup.get_or_create_data_store, called once more
Fn_GetOrCreateDataStore ==
  /\ call.fn = "get_or_create_data_store" /\ CallsMade(frame) < MaxCalls
  /\ \E listOutcome \in ApiOutcomes, createOutcome \in ApiOutcomes :
       /\ setup' = [setup EXCEPT
            !.data_store_name = get_or_create_data_store(setup.data_store_name,
                                  cloud.data_store, listOutcome, createOutcome).name,
            !.lookup = Lookup("data_store", cloud.data_store,
                              get_or_create_data_store(setup.data_store_name,
                                cloud.data_store, listOutcome, createOutcome))]
       /\ cloud' = [cloud EXCEPT
            !.data_store = get_or_create_data_store(setup.data_store_name, cloud.data_store,
                                                    listOutcome, createOutcome).remote,
            !.created.data_store =
               @ + Made(cloud.data_store,
                        get_or_create_data_store(setup.data_store_name, cloud.data_store,
                                                 listOutcome, createOutcome))]
  /\ frame' = [pc |-> "returned", calls |-> CallsMade(frame) + 1]
  /\ UNCHANGED <<call, engine_name, remoteEngine, unlooked>>

\* VertexAISearchSetup.get_or_create_engine, called once more
Fn_GetOrCreateEngine ==
  /\ call.fn = "get_or_create_engine" /\ CallsMade(frame) < MaxCalls
  /\ \E listOutcome \in ApiOutcomes, createOutcome \in ApiOutcomes :
       /\ engine_name' = get_or_create_engine(engine_name, remoteEngine, listOutcome,
                                              createOutcome).engine_name
       /\ remoteEngine' = get_or_create_engine(engine_name, remoteEngine, listOutcome,
                                               createOutcome).remote
       /\ setup' = [setup EXCEPT
            !.lookup = Lookup("engine", remoteEngine,
                              get_or_create_engine(engine_name, remoteEngine, listOutcome,
                                                   createOutcome))]
       /\ cloud' = [cloud EXCEPT
            !.created.engine =
               @ + Made(remoteEngine,
                        get_or_create_engine(engine_name, remoteEngine, listOutcome,
                                             createOutcome))]
  /\ frame' = [pc |-> "returned", calls |-> CallsMade(frame) + 1]
  /\ UNCHANGED <<call, unlooked>>

\* one function is called with one argument list; no pipeline runs
FnInit ==
  /\ call \in TextCalls \cup BatchCalls \cup MapCalls \cup GroupCalls \cup GetOrCreateCalls
  /\ frame = [pc |-> "called"]
  /\ program = "none"
  /\ environ = AllVars
  /\ keyFile = TRUE
  /\ pc = "none"
  /\ clients = {}
  /\ engine_name = ""
  /\ remoteEngine = (call.fn = "get_or_create_engine" /\ call.exists)
  /\ requirements = PyNone
  /\ idx = 0
  /\ compliance_context = NoContext
  /\ all_test_cases = <<>>
  /\ visited = <<>>
  /\ perReq = <<>>
  /\ calls = [model |-> 0, search |-> 0, engine |-> 0]
  /\ lastOp = NoOp
  /\ failure = NoFailure
  /\ report = "none"
  /\ outputFile = Absent
  /\ setup = NewSetup
  /\ cloud = CloudOf(call)

FnNext ==
  \/ Fn_StripFences
  \/ Fn_RepairCommas
  \/ Fn_JsonLoads
  \/ Fn_ExtractAndLoad
  \/ Fn_ExportJira
  \/ Fn_ExportAzure
  \/ Fn_ExportPolarion
  \/ Fn_MapNext
  \/ Fn_MapReturn
  \/ Fn_GroupStart
  \/ Fn_GroupField
  \/ Fn_GroupEnd
  \/ Fn_GetOrCreateProcessor
  \/ Fn_GetOrCreateDataStore
  \/ Fn_GetOrCreateEngine
  \/ Fn_Traceability

FnSpec == FnInit /\ [][FnNext]_vars

\* ------------------------------------------------------------------------
\* Vocabulary of the properties
\* ------------------------------------------------------------------------
RagOps == {"parse_requirements", "generate_test_cases_with_compliance"}
HealthOps == {"parse_requirements_from_text", "generate_test_cases_for_requirement"}

\* the text the operation hands to json.loads
ParsedText(op) ==
  IF op.op \in RagOps THEN CleanResponse(op.text) ELSE ExtractFenced(op.text)

\* the model call of the operation returned a text and json.loads rejects it
ParseFailure(op) ==
  op.op # "none" /\ op.called /\ op.call = "none" /\ ~JsonLoads(ParsedText(op)).ok

IsRecord(val) == val.t \in {"dict", "HealthcareRequirement", "HealthcareTestCase"}

IsListOfDicts(val) ==
  val.t = "list" /\ \A i \in 1..Len(val.v) : val.v[i].t = "dict"

\* the identifier of a record: its test_case_id, else its requirement_id
IdOf(rec) ==
  IF ~IsRecord(rec) THEN PyNone
  ELSE IF DictHas(rec, <<"test_case_id">>) THEN DictGet(rec, <<"test_case_id">>)
  ELSE DictGet(rec, <<"requirement_id">>)

\* the identifiers the fallback paths give to their records
\* (gemini_integration.py:118,158,161; healthcare_pipeline.py:267,339)
IsPlaceholderId(id) ==
  /\ id.t = "str"
  /\ \/ id.v \in {<<"REQ-001-DEMO">>, <<"TC-DEMO-JSON-ERROR">>, <<"TC-DEMO-API-ERROR">>,
                  <<"REQ-DEMO-001">>}
     \/ Len(id.v) >= 3 /\ id.v[1] = "TC-" /\ id.v[Len(id.v)] = "-001"

\* a value with nothing in it: None, or an empty list, dict or str
IsEmptyValue(val) ==
  \/ val.t = "none"
  \/ val.t \in {"list", "dict", "str"} /\ Len(val.v) = 0

\* json.loads built a value with nothing in it
ParsesToEmptyValue(loaded) == loaded.ok /\ IsEmptyValue(loaded.val)

\* the fixed record an operation substitutes when the text does not parse
FixedPlaceholder(op) ==
  IF op = "parse_requirements" THEN ParseRequirementsFallback ELSE JsonErrorFallback

RECURSIVE Flatten(_)
Flatten(seqs) == IF seqs = <<>> THEN <<>> ELSE Head(seqs) \o Flatten(Tail(seqs))

\* the places where a call to an external service is made
ExternalCallSites == {"list_engines", "create_engine", "search", "generate_content"}

\* every constructor of the program has finished
Constructed ==
  IF program = "rag" THEN GeminiClients \subseteq clients ELSE HealthClients \subseteq clients

\* a required setting is missing or the credential file does not exist
ConfigurationError == RequiredVars(program) \ environ # {} \/ ~keyFile

\* ------------------------------------------------------------------------
\* Properties
\* ------------------------------------------------------------------------
\* C1: when the text the model returned does not parse, the operation
\* (parse_requirements, generate_test_cases_with_compliance,
\* parse_requirements_from_text, generate_test_cases_for_requirement) returns
\* a list of exactly one record, and that record carries a placeholder
\* identifier.
C1_ParseFailureYieldsOnePlaceholder ==
  ParseFailure(lastOp) =>
    /\ lastOp.result.t = "list"
    /\ Len(lastOp.result.v) = 1
    /\ IsRecord(lastOp.result.v[1])
    /\ IsPlaceholderId(IdOf(lastOp.result.v[1]))

\* C1 witness: generate_test_cases_with_compliance got an empty text from the
\* model and returned its one placeholder record.
C1_Witness ==
  /\ lastOp.op = "generate_test_cases_with_compliance"
  /\ lastOp.call = "none" /\ lastOp.text = <<>>
  /\ ParseFailure(lastOp)
  /\ Len(lastOp.result.v) = 1

\* C2 (as stated): every operation whose model call returned a text hands a
\* non-empty result on.
C2_SuccessfulCallNeverEmpty ==
  (lastOp.op # "none" /\ lastOp.called /\ lastOp.call = "none") => ~IsEmptyValue(lastOp.result)

\* C2 (amended): the result of an operation is empty exactly when the model
\* call returned a text that the sanitizer parses to an empty value ([] or
\* null); a failed call, an unparseable text and any other text give a
\* non-empty result.
C2_EmptyOnlyForEmptyJson ==
  lastOp.op # "none" =>
    (IsEmptyValue(lastOp.result)
       <=> /\ lastOp.op \in RagOps
           /\ lastOp.call = "none"
           /\ ParsesToEmptyValue(JsonLoads(ParsedText(lastOp))))

\* C2 witness: parse_requirements got the text [] and returned the empty list.
C2_Witness ==
  /\ lastOp.op = "parse_requirements"
  /\ lastOp.call = "none" /\ lastOp.text = <<"[", "]">>
  /\ lastOp.result = PyList(<<>>)
  /\ pc = "next_requirement"

\* C3: the result of parse_requirements and of
\* generate_test_cases_with_compliance is a list of mappings (the one-element
\* fallback list is one), never a bare mapping, string, number or null.
C3_ResultIsListOfMappings ==
  lastOp.op \in RagOps => IsListOfDicts(lastOp.result)

\* C4: when a run has ended after the parse step returned a list of
\* requirements, every requirement was visited once, in order, and the
\* aggregated test cases are the concatenation of the per-requirement results.
C4_EveryRequirementVisitedInOrder ==
  (pc = "done" /\ lastOp.op # "none" /\ requirements.t = "list"
     /\ \A i \in 1..Len(requirements.v) : IsRecord(requirements.v[i]))
    => /\ visited = [i \in 1..Len(requirements.v) |-> i]
       /\ Len(perReq) = Len(requirements.v)
       /\ all_test_cases = Flatten(perReq)

\* C5: no run ends on a failed external call while a later requirement is
\* still to be processed.
C5_FailedCallNeverStopsTheLoop ==
  (pc = "done" /\ failure.exc = "GoogleAPICallError")
    => (requirements.t = "list" /\ idx >= Len(requirements.v))

\* C6: the failure of a call to an external service never reaches main: it
\* is caught where the call is made.
C6_ExternalFailureCaughtAtCallSite ==
  failure.site \notin ExternalCallSites

\* C7: once every constructor has validated its configuration, a run of main
\* that has ended has written the output file.
C7_OutputFileAlwaysWritten ==
  (pc = "done" /\ Constructed) => outputFile.written

\* C8: no record of a successfully parsed model output carries the
\* identifier of a placeholder.
C8_ParsedRecordsNeverCarryPlaceholderId ==
  (lastOp.op # "none" /\ lastOp.call = "none" /\ lastOp.sanitizer = "none"
     /\ lastOp.result.t = "list")
    => \A i \in 1..Len(lastOp.result.v) : ~IsPlaceholderId(IdOf(lastOp.result.v[i]))

\* C9: a run started with a missing setting or without the credential file
\* ends with an error report, no external client constructed, no model,
\* search or engine call issued and no output file.
C9_ConfigurationErrorStopsEverything ==
  (pc = "done" /\ ConfigurationError)
    => /\ report # "none"
       /\ clients = {}
       /\ calls = [model |-> 0, search |-> 0, engine |-> 0]
       /\ ~outputFile.written

\* C10: when the repaired text does not parse, the sanitizer returns no value
\* but raises JSONDecodeError, and the caller (parse_requirements,
\* generate_test_cases_with_compliance) returns its fixed placeholder record.
C10_SanitizerRaisesCallerSubstitutes ==
  (lastOp.op \in RagOps /\ ParseFailure(lastOp))
    => /\ lastOp.sanitizer = "JSONDecodeError"
       /\ lastOp.result = FixedPlaceholder(lastOp.op)

\* C10 witness: parse_requirements got an array whose two objects lack the
\* separating comma and returned the demo requirement.
C10_Witness ==
  /\ lastOp.op = "parse_requirements"
  /\ lastOp.text = MissingCommaText("requirement_id", "REQ-")
  /\ lastOp.sanitizer = "JSONDecodeError"
  /\ lastOp.result = ParseRequirementsFallback

\* ------------------------------------------------------------------------
\* Properties of the functions applied on their own
\* ------------------------------------------------------------------------
\* the text that was wrapped in the code fence of the call
Unwrapped(c) == JsonDumps(c.value, c.trailing, c.blank)

\* what the function of the call does to a text before it parses it
Stripping(fn, text) ==
  IF fn = "_parse_gemini_json_response" THEN StripFences(text) ELSE ExtractFenced(text)

\* the function of the call has stripped the text and not yet changed it further
Stripped ==
  /\ call.fn \in TextFunctions
  /\ frame.pc = (IF call.fn = "_parse_gemini_json_response" THEN "stripped" ELSE "returned")

\* a string body the stripping and the repair leave alone
IsPlainBody(b) == b = <<"x">>

\* every string value of the array is plain
IsPlainArray(val) ==
  \A i \in 1..Len(val.v) :
    \A k \in 1..Len(val.v[i].v) :
      val.v[i].v[k][2].t = "str" => IsPlainBody(val.v[i].v[k][2].v)

\* C11: when the text is wrapped in a code fence (untagged, tagged json or
\* tagged with another language), what the stripping yields is, up to the
\* blanks around it, what it yields for the unwrapped text.
C11_FencedEqualsUnwrapped ==
  (Stripped /\ call.fence # "none")
    => Strip(frame.cleaned_response) = Strip(Stripping(call.fn, Unwrapped(call)))

\* C12: when the repair step receives the text of an array written with
\* trailing commas, the text it produces parses to that array.
C12_RepairYieldsSameStructure ==
  (/\ call.fn = "_parse_gemini_json_response"
   /\ frame.pc = "repaired"
   /\ call.trailing # "none" /\ Len(call.value.v) > 0
   /\ StripFences(call.response_text) = Unwrapped(call))
    => JsonLoads(frame.cleaned_response) = [ok |-> TRUE, val |-> call.value]

\* C13: the sanitizer returns the array a well-formed text denotes (no code
\* fence, no trailing comma), whatever its string values contain.
C13_WellFormedRoundTrip ==
  (/\ call.fn = "_parse_gemini_json_response"
   /\ frame.pc = "returned"
   /\ call.trailing = "none" /\ call.fence = "none")
    => frame.ret = Returned(call.value)

Uncovered(req, test_cases) ==
  \A j \in 1..Len(test_cases) :
    Attr(test_cases[j], "requirement_id") # Attr(req, "requirement_id")

\* the row is the one of the requirement and shows no test case
IsUncoveredRow(row, req) ==
  /\ DictGet(row, <<"requirement_id">>) = Attr(req, "requirement_id")
  /\ DictGet(row, <<"test_coverage">>) = PyInt(0)
  /\ DictGet(row, <<"test_cases">>) = PyList(<<>>)

\* C15: the traceability matrix has one row per requirement, in order, and
\* the row of a requirement with no test case in the batch carries the
\* requirement's identifier, a test coverage of 0 and an empty list of test
\* case identifiers.
C15_UncoveredRequirementInMatrix ==
  (call.fn = "_generate_traceability_matrix" /\ frame.pc = "returned")
    => /\ frame.ret.raised = "none"
       /\ Len(frame.ret.value.v) = Len(call.requirements)
       /\ \A i \in 1..Len(call.requirements) :
            Uncovered(call.requirements[i], call.test_cases)
              => IsUncoveredRow(frame.ret.value.v[i], call.requirements[i])

\* C15 witness: the matrix was built for a batch that has test cases, none of
\* them for its first requirement, whose row shows a coverage of 0.
C15_Witness ==
  /\ call.fn = "_generate_traceability_matrix" /\ frame.pc = "returned"
  /\ Len(call.requirements) > 0 /\ Len(call.test_cases) > 0
  /\ Uncovered(call.requirements[1], call.test_cases)
  /\ IsUncoveredRow(frame.ret.value.v[1], call.requirements[1])

ExportFunctions == {"export_to_jira_format", "export_to_azure_devops_format"}

\* the field of an exported item that holds the compliance standards
StandardsField(fn) ==
  IF fn = "export_to_jira_format" THEN <<"customfield_10005">>
  ELSE <<"Custom.ComplianceStandard">>

\* how an export writes a list of compliance standards: Jira as the list,
\* Azure DevOps as its items joined by ", " (the empty list as the empty text)
ExportedAs(fn, standards) ==
  IF fn = "export_to_jira_format" THEN standards
  ELSE PyStr(JoinSyms(<<",", SP>>, standards.v))

\* no requirement of the batch has the identifier the test case names
Unresolved(tc, reqs) ==
  \A r \in 1..Len(reqs) : Attr(reqs[r], "requirement_id") # Attr(tc, "requirement_id")

\* the compliance standards the exported item carries are right for tc
StandardsExported(fn, item, tc, reqs) ==
  IF Unresolved(tc, reqs)
  THEN DictGet(DictGet(item, <<"fields">>), StandardsField(fn)) = ExportedAs(fn, PyList(<<>>))
  ELSE \E r \in 1..Len(reqs) :
         /\ Attr(reqs[r], "requirement_id") = Attr(tc, "requirement_id")
         /\ DictGet(DictGet(item, <<"fields">>), StandardsField(fn))
              = ExportedAs(fn, Attr(reqs[r], "compliance_standards"))

RequiredKeys(op) ==
  IF op = "parse_requirements"
  THEN {"requirement_id", "title", "description", "acceptance_criteria"}
  ELSE IF op = "generate_test_cases_with_compliance"
  THEN {"test_case_id", "title", "description", "steps", "expected_results"}
  ELSE IF op = "parse_requirements_from_text" THEN RequirementFields
  ELSE TestCaseFields

\* C17: no operation returns a record that lacks a required field.
C17_NoRecordMissesRequiredField ==
  (lastOp.op # "none" /\ lastOp.result.t = "list")
    => \A i \in 1..Len(lastOp.result.v) :
         IsRecord(lastOp.result.v[i])
           => \A k \in RequiredKeys(lastOp.op) : DictHas(lastOp.result.v[i], <<k>>)

\* a model call that failed
FailedCall == [raised |-> "Exception", text |-> <<>>]

KeysOf(rec) == {rec.v[k][1] : k \in 1..Len(rec.v)}

C19_OneSearchOneGenerationPerRequirement ==
  [][/\ (pc = "search" /\ pc' = "generate")
          => (calls'.search = calls.search + 1 /\ calls'.model = calls.model)
     /\ (pc = "generate" /\ pc' # pc)
          => (calls'.model = calls.model + 1 /\ calls'.search = calls.search)
     /\ (pc = "h_generate" /\ pc' # pc)
          => (calls'.search = calls.search + 1 /\ calls'.model = calls.model + 1)]_vars

\* C20 (as stated): once construction has finished no field of a component
\* is written, the engine name included.
C20_NoFieldWrittenAfterConstruction ==
  [][Constructed
       => /\ clients' = clients
          /\ environ' = environ
          /\ keyFile' = keyFile
          /\ engine_name' = engine_name]_vars

\* C20 (amended): once construction has finished the engine name is the only
\* field written: by a search that finds it empty, which leaves it set when
\* it returns; once set it never changes.
C20_OnlyEngineNameWrittenOnce ==
  [][Constructed
       => /\ clients' = clients
          /\ environ' = environ
          /\ keyFile' = keyFile
          /\ engine_name' # engine_name => (engine_name = "" /\ pc = "search")
          /\ (pc = "search" /\ pc' = "generate") => engine_name' # ""]_vars

\* C20 witness: the first search of a run has stored the engine name and
\* returned.
C20_Witness ==
  /\ program = "rag" /\ pc = "generate"
  /\ calls.search = 1 /\ calls.engine > 0
  /\ engine_name = EngineResource

\* ------------------------------------------------------------------------
\* The claims C21..C29
\* ------------------------------------------------------------------------

\* C21: search results are read defensively: a result that lacks one of its
\* structured fields (title, snippets) never makes the search operation
\* raise into its caller; no run ends with an exception raised where the
\* fields of a result are read.
C21_SearchReadsResultsDefensively ==
  failure.site # "derived_struct_data"

AllExportFunctions ==
  {"export_to_jira_format", "export_to_azure_devops_format", "export_to_polarion_format"}

\* what one pass of the loop of the export does with one test case
ExportEntry(fn, tc, reqs) ==
  IF fn = "export_to_jira_format" THEN JiraExportOne(tc, reqs)
  ELSE IF fn = "export_to_azure_devops_format" THEN AzureExportOne(tc, reqs)
  ELSE PolarionExportOne(tc)

\* the requirement link of an exported entry
RequirementLink(fn, entry) ==
  IF fn = "export_to_jira_format"
  THEN DictGet(DictGet(entry, <<"fields">>), <<"customfield_10001">>)
  ELSE IF fn = "export_to_azure_devops_format"
  THEN DictGet(DictGet(entry, <<"fields">>), <<"Custom.RequirementLink">>)
  ELSE DictGet(entry, <<"requirement_link">>)

\* another value of the same type for a field of a test case
OtherValue(field, val) ==
  IF field = "steps"
  THEN PyList(<< PyDict(<< <<(<<"step">>), PyInt(2)>>,
                           Item("action", <<"other", SP, "action">>),
                           Item("expected_result", <<"other", SP, "result">>) >>) >>)
  ELSE IF val.t = "bool" THEN PyBool(~val.v)
  ELSE IF val.t = "list" THEN PyStrList(<< <<"other">> >>)
  ELSE PyStr(<<"other">>)

\* the test case with one field given another value
WithOtherValue(tc, field) ==
  Instance(tc.t, DictSet(tc.v, <<field>>, OtherValue(field, Attr(tc, field))))

\* the entry the export emits for the test case shows the field: it is
\* another entry when the field has another value
FieldAppears(fn, tc, reqs, field) ==
  ExportEntry(fn, WithOtherValue(tc, field), reqs) # ExportEntry(fn, tc, reqs)

\* C22: each of the three exports (Jira, Azure DevOps, Polarion) returns one
\* entry per test case, in the order of the test cases, and every field of
\* the test case appears in its entry.
C22_ExportCarriesEveryField ==
  (call.fn \in AllExportFunctions /\ frame.pc = "returned")
    => /\ frame.ret.raised = "none"
       /\ Len(frame.ret.value.v) = Len(call.test_cases)
       /\ \A i \in 1..Len(call.test_cases) :
            /\ RequirementLink(call.fn, frame.ret.value.v[i])
                 = Attr(call.test_cases[i], "requirement_id")
            /\ \A field \in TestCaseFields :
                 FieldAppears(call.fn, call.test_cases[i], call.requirements, field)

\* the constructor of the dataclass of fn accepts the object
Mappable(fn, obj) ==
  /\ obj.t = "dict"
  /\ {obj.v[k][1] : k \in 1..Len(obj.v)} = {<<f>> : f \in MappedFields(fn)}

\* the record the object maps to
RecordOf(fn, obj) == Instance(MappedClass(fn), obj.v)

\* C23: mapping a parsed array is all-or-nothing: when one object of the
\* array does not map, the records already mapped from it are discarded and
\* the result is exactly the one placeholder record; otherwise the result
\* holds the record of every object, in order.  A result never mixes mapped
\* records with a placeholder.
C23_MappingIsAllOrNothing ==
  (call.fn \in MapFunctions /\ frame.pc = "returned")
    => IF \E i \in 1..Len(call.data) : ~Mappable(call.fn, call.data[i])
       THEN frame.ret = PyList(<<MapFallback(call.fn)>>)
       ELSE frame.ret = PyList([i \in 1..Len(call.data) |-> RecordOf(call.fn, call.data[i])])

\* C23 witness: the first object of the array was mapped, the second one
\* misses a field, and the function returned the placeholder alone.
C23_Witness ==
  /\ call.fn = "parse_requirements_from_text.map" /\ frame.pc = "returned"
  /\ Len(call.data) = 2
  /\ Mappable(call.fn, call.data[1])
  /\ call.data[2].t = "dict" /\ ~DictHas(call.data[2], <<"title">>)
  /\ Len(frame.mapped) = 1
  /\ frame.ret = PyList(<<SampleRequirement>>)

\* the identifiers of the test cases of the batch whose parent is req, in the
\* order of the batch
ChildrenOf(req, test_cases) ==
  [j \in 1..Len(SelectSeq(test_cases, LAMBDA tc :
                  Attr(tc, "requirement_id") = Attr(req, "requirement_id"))) |->
     Attr(SelectSeq(test_cases, LAMBDA tc :
            Attr(tc, "requirement_id") = Attr(req, "requirement_id"))[j], "test_case_id")]

\* the row is the one of req: its test cases are the children of req and its
\* coverage is their number
IsRowOf(row, req, test_cases) ==
  /\ DictGet(row, <<"requirement_id">>) = Attr(req, "requirement_id")
  /\ DictGet(row, <<"test_cases">>) = PyList(ChildrenOf(req, test_cases))
  /\ DictGet(row, <<"test_coverage">>) = PyInt(Len(DictGet(row, <<"test_cases">>).v))

\* the sum of the coverage counts of the rows
RECURSIVE CoverageSum(_)
CoverageSum(rows) ==
  IF rows = <<>> THEN 0
  ELSE DictGet(Head(rows), <<"test_coverage">>).v + CoverageSum(Tail(rows))

\* the test case is listed in no row
InNoRow(tc, rows) ==
  \A i \in 1..Len(rows) :
    \A k \in 1..Len(DictGet(rows[i], <<"test_cases">>).v) :
      DictGet(rows[i], <<"test_cases">>).v[k] # Attr(tc, "test_case_id")

EveryParentResolves(reqs, test_cases) ==
  \A j \in 1..Len(test_cases) : ~Unresolved(test_cases[j], reqs)

DistinctRequirementIds(reqs) ==
  \A i, k \in 1..Len(reqs) :
    i # k => Attr(reqs[i], "requirement_id") # Attr(reqs[k], "requirement_id")

\* the pairs of a requirement and a test case generated for it
Links(reqs, test_cases) ==
  {p \in (1..Len(reqs)) \X (1..Len(test_cases)) :
     Attr(test_cases[p[2]], "requirement_id") = Attr(reqs[p[1]], "requirement_id")}

\* the rows of the matrix are those of the requirements, in order, and a test
\* case whose parent is no requirement is in no row
MatrixRows(rows, reqs, test_cases) ==
  /\ Len(rows) = Len(reqs)
  /\ \A i \in 1..Len(reqs) : IsRowOf(rows[i], reqs[i], test_cases)
  /\ \A j \in 1..Len(test_cases) :
       Unresolved(test_cases[j], reqs) => InNoRow(test_cases[j], rows)

\* C24 (as stated): the matrix has one row per requirement, in order; the
\* coverage of a row is the length of its list of test cases, which holds the
\* identifiers of the test cases generated for the requirement, in order; a
\* test case whose parent is no requirement is in no row; and the coverage
\* counts sum to the number of test cases only when every parent resolves and
\* the requirement identifiers are distinct.
C24_CoverageSumsOnlyWhenResolvedAndDistinct ==
  (call.fn = "_generate_traceability_matrix" /\ frame.pc = "returned")
    => /\ frame.ret.raised = "none"
       /\ MatrixRows(frame.ret.value.v, call.requirements, call.test_cases)
       /\ CoverageSum(frame.ret.value.v) = Len(call.test_cases)
            => /\ EveryParentResolves(call.requirements, call.test_cases)
               /\ DistinctRequirementIds(call.requirements)

\* C24 (amended): the rows are as stated; the coverage counts sum to the
\* number of pairs of a requirement and a test case generated for it, so a
\* test case counts once for every requirement that carries its parent
\* identifier: the sum is the number of test cases whenever every parent
\* resolves and the requirement identifiers are distinct.
C24_CoverageSumsLinks ==
  (call.fn = "_generate_traceability_matrix" /\ frame.pc = "returned")
    => /\ frame.ret.raised = "none"
       /\ MatrixRows(frame.ret.value.v, call.requirements, call.test_cases)
       /\ CoverageSum(frame.ret.value.v)
            = Cardinality(Links(call.requirements, call.test_cases))
       /\ (EveryParentResolves(call.requirements, call.test_cases)
             /\ DistinctRequirementIds(call.requirements))
            => CoverageSum(frame.ret.value.v) = Len(call.test_cases)

\* C24 witness: the matrix of two requirements with the same identifier and
\* two test cases, one generated for that identifier and one whose parent is
\* no requirement: the first is in both rows, the second in none, and the
\* coverage counts sum to the number of test cases.
C24_Witness ==
  /\ call.fn = "_generate_traceability_matrix" /\ frame.pc = "returned"
  /\ Len(call.requirements) = 2 /\ Len(call.test_cases) = 2
  /\ ~DistinctRequirementIds(call.requirements)
  /\ ~Unresolved(call.test_cases[1], call.requirements)
  /\ Unresolved(call.test_cases[2], call.requirements)
  /\ InNoRow(call.test_cases[2], frame.ret.value.v)
  /\ CoverageSum(frame.ret.value.v) = 2

\* the name of a form field, without the blanks around it and its colons,
\* and its value, without the blanks around it
StoredName(field) == Replace(Strip(field.field_name), <<":">>, <<>>)
StoredValue(field) == PyStr(Strip(field.field_value))

\* the form field starts a record: its name contains 'Requirement ID'
StartsRecord(field) == Contains(StoredName(field), <<"Requirement", SP, "ID">>)

\* the positions of the form fields that start a record, in document order
RECURSIVE StartPositions(_, _)
StartPositions(fields, n) ==
  IF n = 0 THEN <<>>
  ELSE StartPositions(fields, n - 1) \o (IF StartsRecord(fields[n]) THEN <<n>> ELSE <<>>)

\* the positions of the fields that follow the start at position p up to the
\* next start
GroupOf(fields, p) ==
  {q \in (p + 1)..Len(fields) : \A m \in (p + 1)..q : ~StartsRecord(fields[m])}

\* rec is the record started by the field at position p: it carries the
\* value of that field as its 'Requirement ID' and, besides, exactly the
\* fields of its group, each with the value of its last occurrence
IsRecordOf(rec, fields, p) ==
  /\ DictGet(rec, <<"Requirement", SP, "ID">>) = StoredValue(fields[p])
  /\ {rec.v[k][1] : k \in 1..Len(rec.v)}
       = {<<"Requirement", SP, "ID">>} \cup {StoredName(fields[q]) : q \in GroupOf(fields, p)}
  /\ \A q \in GroupOf(fields, p) :
       (\A m \in GroupOf(fields, p) : m > q => StoredName(fields[m]) # StoredName(fields[q]))
         => DictGet(rec, StoredName(fields[q])) = StoredValue(fields[q])

CreatedBy(fn) ==
  IF fn = "get_or_create_processor" THEN cloud.created.processor
  ELSE IF fn = "get_or_create_data_store" THEN cloud.created.data_store
  ELSE cloud.created.engine

StoredResourceName(fn) ==
  IF fn = "get_or_create_processor" THEN setup.processor_name
  ELSE IF fn = "get_or_create_data_store" THEN setup.data_store_name
  ELSE engine_name

ConfiguredResource(fn) ==
  IF fn = "get_or_create_processor" THEN ProcessorResource
  ELSE IF fn = "get_or_create_data_store" THEN DataStoreResource
  ELSE EngineResource

\* C26: the lookups of the processor, the data store and the engine are
\* idempotent on the remote resources: a call that finds the resource with
\* the configured display name issues no create call and, when it returns,
\* has stored the name of that resource; whatever the number of calls, at
\* most one resource is created, and none when it was there at the start.
C26_GetOrCreateIsIdempotent ==
  (call.fn \in GetOrCreateFunctions /\ frame.pc = "returned")
    => /\ CreatedBy(call.fn) <= (IF call.exists THEN 0 ELSE 1)
       /\ setup.lookup.existed
            => /\ ~setup.lookup.created
               /\ setup.lookup.raised = "none"
                    => StoredResourceName(call.fn) = ConfiguredResource(call.fn)

\* C26 witness: get_or_create_data_store was called more than once in a
\* project without the data store: one call created it, the last call found
\* it, issued no create call and stored its name.
C26_Witness ==
  /\ call.fn = "get_or_create_data_store" /\ ~call.exists
  /\ frame.pc = "returned" /\ frame.calls > 1
  /\ cloud.created.data_store = 1
  /\ setup.lookup.existed /\ ~setup.lookup.created /\ setup.lookup.raised = "none"
  /\ setup.data_store_name = DataStoreResource

\* C27: once the sample document is uploaded and process_sample_document has
\* ended, the document is in exactly one of the raw bucket and the error
\* bucket: in the error bucket, as 'failed-' plus its name, when processing
\* failed with a vendor API error, and in the raw bucket otherwise.
C27_DocumentInExactlyOneBucket ==
  (program = "setup_day1" /\ pc = "done" /\ setup.uploaded)
    => /\ (RawBlob \in cloud.blobs) # (FailedBlob \in cloud.blobs)
       /\ (FailedBlob \in cloud.blobs) <=> (failure.exc = "GoogleAPICallError")

\* the steps of run_setup of the program
RunSetupSteps(prog) == IF prog = "setup_day1" THEN Day1Steps ELSE Day2Steps

\* the k-th step of run_setup has ended without an exception
StepSucceeded(prog, k) ==
  IF prog = "setup_day1"
  THEN IF k = 1 THEN setup.processor_name # ""
       ELSE setup.bucket_at = Len(BucketKeys) /\ setup.last_bucket \in {"created", "Conflict"}
  ELSE IF k = 1 THEN setup.data_store_name # ""
       ELSE engine_name # ""

\* C28: run_setup runs its steps in a fixed order (day 1: processor, buckets,
\* sample document; day 2: data store, engine, document import); a step is
\* begun only when every step before it has succeeded, and an exception of a
\* step ends run_setup, which catches and logs it: it never reaches main.
C28_RunSetupStepsInOrder ==
  program \in SetupPrograms
    => /\ Len(setup.steps) <= Len(RunSetupSteps(program))
       /\ setup.steps = SubSeq(RunSetupSteps(program), 1, Len(setup.steps))
       /\ \A k \in 1..(Len(setup.steps) - 1) : StepSucceeded(program, k)
       /\ (failure # NoFailure /\ setup.steps # <<>>)
            => (pc = "done" /\ report = "Setup Failed")
       /\ pc # "done" => failure = NoFailure

\* C28 witness: the bucket step of day 1 failed after the processor step;
\* the sample document step was not begun and run_setup logged the failure.
C28_Witness ==
  /\ program = "setup_day1" /\ pc = "done"
  /\ setup.steps = <<"get_or_create_processor", "create_gcs_buckets">>
  /\ failure.exc = "GoogleAPICallError"
  /\ report = "Setup Failed"

\* the bucket names the loop has not visited
LaterBuckets == {BucketKeys[j] : j \in (setup.bucket_at + 1)..Len(BucketKeys)}

\* C29: create_gcs_buckets visits the configured bucket names once each, in
\* order; a bucket that exists already (conflict) is skipped and the loop
\* goes on with the next name; any other API error ends the operation and no
\* later bucket is created.
C29_BucketLoopSkipsConflicts ==
  program = "setup_day1"
    => /\ setup.bucket_at <= Len(BucketKeys)
       /\ cloud.made \cap LaterBuckets = {}
       /\ Len(setup.steps) > 2 => (setup.bucket_at = Len(BucketKeys) /\ BucketSet \subseteq cloud.buckets)
       /\ setup.last_bucket \in {"created", "Conflict"}
            => /\ failure.site # "create_gcs_buckets"
               /\ BucketKeys[setup.bucket_at] \in cloud.buckets
               /\ setup.bucket_at < Len(BucketKeys) => pc = "create_gcs_buckets"
       /\ setup.last_bucket \in {"GoogleAPICallError", "patch_failed"}
            => (pc = "done" /\ failure = Failure("GoogleAPICallError", "create_gcs_buckets"))

\* C29 witness: the first bucket existed and was skipped, the second was
\* created, the third failed with an API error: the loop has ended there and
\* none of the later buckets was created.
C29_Witness ==
  /\ program = "setup_day1" /\ pc = "done"
  /\ setup.bucket_at = 3 /\ setup.last_bucket = "GoogleAPICallError"
  /\ BucketKeys[1] \in cloud.buckets \ cloud.made
  /\ BucketKeys[2] \in cloud.made
  /\ cloud.buckets \cap LaterBuckets = {}

=============================================================================
